---- MODULE Spec2Model ----
(***************************************************************************)
(* Model of the preview CLI's data-movement core: staging of a payload     *)
(* stream to a temporary file and its upload to the remote endpoint,       *)
(* either as a single request or with the init / chunk / complete          *)
(* protocol (client package, UploadBaseFileChunked and its callees).       *)
(*                                                                         *)
(* Sizes are scaled: one model byte stands for one byte of payload and     *)
(* chunkSize is a small number instead of 50 MiB, so that payloads of      *)
(* zero to several chunks are enumerated.                                  *)
(***************************************************************************)
EXTENDS Integers, Sequences, FiniteSets, TLC

\* ---------------------------------------------------------------- bounds
\* Largest payload (bytes of the compressed stream) that is enumerated.
MaxSize == 5

\* Largest number of chunk requests that fail in one run (any number of
\* them may fail for the same chunk).
MaxFaults == 3

\* Number of bytes an OS pipe holds before a write to it blocks.
PipeCap == 1

\* ------------------------------------------------------ program constants
\* const chunkSize = 50 * 1024 * 1024, scaled down.
chunkSize == 2

\* Number of attempts per chunk: for attempt := 0; attempt < 3; attempt++.
MaxAttempts == 3

\* upload_id values the server may assign in the body of the init response.
ServerIDs == {"u1", "u2"}

\* An init response body without a parsable upload_id field.
NoUploadID == "none"

\* Outcomes of HTTPClient.Do: 0 is a transport error (err != nil), every
\* other value is the status code of the response.
TransportError == 0
Outcomes == {TransportError, 200, 401, 500}

\* Status of a request that was issued and has not been answered yet.
Pending == -1

VARIABLES
    pc,          \* position of the process
    stream,      \* bytes of the reader not consumed yet
    tmpExists,   \* the temporary staged file exists on disk
    srcFile,     \* push: the file named on the command line, as on disk
    tmpData,     \* content of the temporary staged file
    written,     \* result of io.Copy: number of bytes staged
    totalChunks, \* uploadChunked: totalChunks
    UploadID,    \* uploadChunked: initResult.UploadID
    assigned,    \* upload_id field of the init response body (as sent)
    i,           \* uploadChunked: chunk loop index
    attempt,     \* uploadChunked: retry loop counter (0-based)
    n,           \* uploadChunked: bytes read by io.ReadFull
    chunkData,   \* uploadChunked: buf[:n]
    fpos,        \* read offset of f in the staged file
    totalSent,   \* uploadChunked: totalSent
    trace,       \* requests issued and sleeps made, in order
    result,      \* what UploadBaseFileChunked returned
    cmd,         \* position of the command function calling the upload
    stages,      \* the external processes of the pipeline
    cmdResult,   \* what the command function returned
    log,         \* process, stream and file operations made, in order
    destExists,  \* pull: a file exists at the output path
    destData,    \* pull: content of the file at the output path
    respBody,    \* pull: bytes of the response body not copied yet
    stderr,      \* what the process wrote to os.Stderr, in order
    pipes,       \* bytes emitted by the producer and held in the OS pipes
    fileKind,    \* push: which base file the command uploads
    source,      \* push: the payload comes from the pipeline or from a file
    autoYes,     \* push: the --yes flag
    answer,      \* push: what os.Stdin holds for confirm to read
    pigz,        \* push: pigz is on the search path
    ddev,        \* push: state of the DDEV environment
    argv,        \* push: the command line built for each stage
    now,         \* root: the clock (time.Now), in ticks of twelve hours
    cfg,         \* root: content of the config file
    Version,     \* root: version of the running binary
    versionChecks, \* root: version requests sent, with their time and answer
    root,        \* root: position of the invocation in progress
    run,         \* root: number of invocations so far
    notices,     \* root: update notices printed, with their invocation
    buf,         \* uploadChunked: content of buf, shared by all chunks
    writers,     \* uploadOneChunk: the multipart-writer goroutines started
    login        \* login: position and local variables of authLoginCmd

vars == <<pc, stream, tmpExists, srcFile, tmpData, written, totalChunks, UploadID,
          assigned, i, attempt, n, chunkData, fpos, totalSent, trace, result,
          cmd, stages, cmdResult, log, destExists, destData, respBody,
          stderr, pipes, fileKind, source, autoYes, answer, pigz, ddev, argv,
          now, cfg, Version, versionChecks, root, run, notices, buf,
          writers, login>>

\* ---------------------------------------------------------------- helpers
Min(a, b) == IF a < b THEN a ELSE b

RECURSIVE Pow2(_)
Pow2(k) == IF k = 0 THEN 1 ELSE 2 * Pow2(k - 1)

\* The payload of a given size: byte k has the value k, so that every
\* slice of it shows the offsets it was taken from (the code never looks
\* at the value of a payload byte).
Payload(size) == [k \in 1..size |-> k]

\* An entry of the trace: a request handed to the transport, or a sleep.
Event(kind, index, id, payload, chunks, size, status, secs) ==
    [kind |-> kind, index |-> index, id |-> id, payload |-> payload,
     chunks |-> chunks, size |-> size, status |-> status, secs |-> secs]

Request(kind, index, id, payload, chunks, size) ==
    Event(kind, index, id, payload, chunks, size, Pending, 0)

Sleep(index, secs) == Event("sleep", index, "", <<>>, 0, 0, 0, secs)

\* Chunk requests of a trace that were answered with a failure.
FailedChunks(t) ==
    {k \in 1..Len(t) : t[k].kind = "chunk" /\ t[k].status \notin {Pending, 200}}

\* The answer to the request in flight is recorded on its trace entry.
Answered(st) == [trace EXCEPT ![Len(trace)].status = st]

NoResult == [err |-> "running", index |-> -1]
Ok == [err |-> "nil", index |-> -1]
Err(what) == [err |-> what, index |-> -1]
\* Mutant of ChunkErr: the error names the chunk 1-based, as the progress
\* messages do.
ChunkErr_OneBased(index) ==
    [err |-> "chunk failed after 3 attempts", index |-> index + 1]

\* uploadChunked: the error returned when the retry loop ends in failure.
ChunkErr(index) == [err |-> "chunk failed after 3 attempts", index |-> index]

\* ------------------------------------------------- pure parts of the code
\* Mutant of UseSinglePath: the boundary size goes to the single path.
UseSinglePath_Le(size) == size <= chunkSize

\* UploadBaseFileChunked: if written < chunkSize { single } else { chunked }.
UseSinglePath(size) == size < chunkSize

\* Mutant of TotalChunksOf: the division rounds down.
TotalChunksOf_Floor(totalSize) == totalSize \div chunkSize

\* uploadChunked: totalChunks := int((totalSize + chunkSize - 1) / chunkSize).
TotalChunksOf(totalSize) == (totalSize + chunkSize - 1) \div chunkSize

\* uploadChunked: json Decode into initResult with the error discarded; a
\* body without an upload_id leaves the zero value "".
Decode(body) == IF body = NoUploadID THEN "" ELSE body

\* Mutant of ReadFull: every read starts at the beginning of the file.
ReadFull_NoAdvance(file, pos) ==
    SubSeq(file, 1, Min(chunkSize, Len(file) - pos))

\* io.ReadFull(f, buf) with len(buf) = chunkSize on a file read
\* sequentially from offset pos: the bytes it puts in buf[:n].
ReadFull(file, pos) ==
    SubSeq(file, pos + 1, pos + Min(chunkSize, Len(file) - pos))

\* Mutant of BackoffSecs: the shift counts the failed attempts from 0.
BackoffSecs_FromZero(att) == Pow2(att - 1) * 2

\* uploadChunked: wait := time.Duration(1<<uint(attempt)) * 2 * time.Second,
\* in seconds, attempt being the 0-based number of the attempt about to run.
BackoffSecs(att) == Pow2(att) * 2

\* Mutant of RetryLoopContinues: one attempt too many.
RetryLoopContinues_Le(att) == att <= MaxAttempts

\* uploadChunked: condition of the retry loop, attempt < 3.
RetryLoopContinues(att) == att < MaxAttempts

\* uploadChunked: condition of the chunk loop, i < totalChunks.
ChunkLoopContinues(idx, total) == idx < total

\* Mutant of ChunkAccepted: the status of the response is not looked at.
ChunkAccepted_AnyStatus(st) == st /= TransportError

\* uploadOneChunk: nil is returned only for a response with status 200; a
\* transport error and every other status (401 included) are an error.
ChunkAccepted(st) == st = 200

\* doRequest: a transport error is returned, a 401 response ends the
\* process with os.Exit(1), every other response is handed to the caller.
DoRequest(st) ==
    IF st = TransportError THEN "error"
    ELSE IF st = 401 THEN "exit"
    ELSE "response"

\* Mutant of AfterResponse: the status of the response is not looked at.
AfterResponse_AnyStatus(st) ==
    IF DoRequest(st) /= "response" THEN DoRequest(st) ELSE "ok"

\* uploadChunked after doRequest for init and complete: the way the call
\* ends.
\*   "error"  a transport error is returned
\*   "exit"   os.Exit(1) on a 401 response
\*   "http"   an error is returned for a status other than 200
\*   "ok"     the response is accepted
AfterResponse(st) ==
    IF DoRequest(st) /= "response" THEN DoRequest(st)
    ELSE IF st /= 200 THEN "http"
    ELSE "ok"

\* The stages of a push pipeline: the producer (ddev drush sql-dump, or
\* tar) and the compressor (pigz or gzip) reading its output.
Stages == {"producer", "compressor"}

\* Exit statuses of a stage, as cmd.Wait learns them.
ExitCodes == {0, 1}

\* A stage that was not started, one that runs and was not waited on, and
\* one whose Wait returned with the given exit status.
NotStarted == [state |-> "idle", code |-> 0]
Running == [state |-> "running", code |-> 0]
Exited == [state |-> "exited", code |-> 0]
Waited(code) == [state |-> "waited", code |-> code]

\* Mutant of StageFailed: the error of cmd.Wait is dropped.
StageFailed_Never(code) == FALSE

\* generateAndUploadDB / generateAndUploadFiles: cmd.Wait returns an error
\* for a stage that exited with a status other than 0.
StageFailed(code) == code /= 0

\* Mutant of UploadFailed: the stages are waited on whatever the upload
\* returned.
UploadFailed_Never(r) == FALSE

\* generateAndUploadDB / generateAndUploadFiles: err != nil after
\* apiClient.UploadBaseFileChunked.
UploadFailed(r) == r.err /= "nil"

\* ------------------------------------------------------------------ state
\* What is written to os.Stderr: a progress line ("\r... sofar / total"),
\* the newline of fmt.Fprintln(os.Stderr), or a message line.
Progress(sofar, total) == [kind |-> "progress", sofar |-> sofar, total |-> total]
Newline == [kind |-> "newline", sofar |-> -1, total |-> -1]
Message(what) == [kind |-> what, sofar |-> -1, total |-> -1]

\* progressWriter.Write: pw.written += int64(len(p)).
ProgressWrite(sofar, p) == sofar + Len(p)

\* Mutant of CompressorCommand: gzip is left at its default level.
CompressorCommand_DefaultLevel(found) ==
    IF found THEN <<"pigz", "-6", "-c">> ELSE <<"gzip", "-c">>

\* generateAndUploadDB / generateAndUploadFiles: the compressor command,
\* pigz when exec.LookPath finds it and gzip otherwise.
CompressorCommand(found) ==
    IF found THEN <<"pigz", "-6", "-c">> ELSE <<"gzip", "-6", "-c">>

\* The producer command: drush sql-dump under ddev for the database, tar
\* writing an uncompressed archive to stdout for the files (the --exclude
\* arguments are left out).
ProducerCommand(k) ==
    IF k = "db" THEN <<"ddev", "drush", "sql-dump">>
    ELSE <<"tar", "cf", "-", "--exclude=./css", "--exclude=./js",
           "--exclude=./php", "-C", "filesDir", ".">>

NoCommands == [s \in Stages |-> <<>>]
Commands(k, found) ==
    [s \in Stages |-> IF s = "producer" THEN ProducerCommand(k)
                                        ELSE CompressorCommand(found)]

\* os.Stdin is not looked at (--yes), or is at its end.
NotAsked == <<"-">>
EndOfInput == <<"^D">>

\* Lines the operator may type, as sequences of characters.
Answers ==
    {<<>>, <<"y">>, <<"n">>, <<"n", "o">>, <<"N", "O">>, <<" ", "n", " ">>,
     <<"n", "o", "p", "e">>}

\* strings.ToLower, on the characters that occur.
Lower(c) ==
    CASE c = "N" -> "n"
      [] c = "O" -> "o"
      [] OTHER -> c

ToLower(line) == [k \in DOMAIN line |-> Lower(line[k])]

\* strings.TrimSpace: leading and trailing white space is dropped.
RECURSIVE TrimSpace(_)
TrimSpace(line) ==
    IF line = <<>> THEN line
    ELSE IF Head(line) = " " THEN TrimSpace(Tail(line))
    ELSE IF line[Len(line)] = " "
         THEN TrimSpace(SubSeq(line, 1, Len(line) - 1))
    ELSE line

\* Mutant of Accepts: the line is compared as typed.
Accepts_AsTyped(line) == line /= <<"n">> /\ line /= <<"n", "o">>

\* confirm: answer := strings.TrimSpace(strings.ToLower(scanner.Text()));
\* return answer != "n" && answer != "no".
Accepts(line) ==
    LET a == TrimSpace(ToLower(line))
    IN  a /= <<"n">> /\ a /= <<"n", "o">>

\* confirm: true with --yes, true when scanner.Scan() finds no line.
confirm(auto, input) ==
    IF auto THEN TRUE
    ELSE IF input = EndOfInput THEN TRUE
    ELSE Accepts(input)

\* The OS pipes between producer and compressor (raw) and between
\* compressor and the command (gz) hold a bounded number of bytes; emitted
\* counts what the producer has written.  A byte of the producer is taken
\* to make one byte of the compressed stream.
EmptyPipes == [emitted |-> 0, raw |-> 0, gz |-> 0]

\* A config file of a logged-in user whose version was never checked.
FreshConfig ==
    [APIURL |-> "set", Token |-> "", LastVersionCheck |-> 0,
     LatestVersion |-> ""]

\* What loadConfig returns when the file is missing or cannot be parsed.
ZeroConfig ==
    [APIURL |-> "", Token |-> "", LastVersionCheck |-> 0, LatestVersion |-> ""]

\* The login command is not running.
NoLogin == [pc |-> "none"]

\* No file is named on the command line.
NoFile == [exists |-> FALSE, data |-> <<>>]

\* A file on disk with the given content.
File(data) == [exists |-> TRUE, data |-> data]

\* buf is not allocated and no writer goroutine was started.
BodyIdle ==
    /\ buf = <<>>
    /\ writers = <<>>

\* The root command's state while a push or pull command is looked at.
RootIdle ==
    /\ now = 1
    /\ cfg = FreshConfig
    /\ Version = "v1"
    /\ versionChecks = <<>>
    /\ root = "command"
    /\ run = 1
    /\ notices = <<>>

\* generateAndUploadDB at the point where the stages are started: the
\* operator confirmed, DDEV runs, the commands are built.
Init ==
    /\ pc = "start"
    /\ stream \in {Payload(size) : size \in 0..MaxSize}
    /\ tmpExists = FALSE
    /\ tmpData = <<>>
    /\ written = 0
    /\ totalChunks = 0
    /\ UploadID = ""
    /\ assigned = ""
    /\ i = 0
    /\ attempt = 0
    /\ n = 0
    /\ chunkData = <<>>
    /\ fpos = 0
    /\ totalSent = 0
    /\ trace = <<>>
    /\ result = NoResult
    /\ cmd = "begin"
    /\ stages = [s \in Stages |-> NotStarted]
    /\ cmdResult = "running"
    /\ log = <<>>
    /\ destExists = FALSE
    /\ destData = <<>>
    /\ respBody = <<>>
    /\ stderr = <<>>
    /\ pipes = EmptyPipes
    /\ fileKind = "db"
    /\ source = "pipeline"
    /\ autoYes = TRUE
    /\ answer = NotAsked
    /\ pigz = TRUE
    /\ ddev = "running"
    /\ argv = Commands("db", TRUE)
    /\ srcFile = NoFile
    /\ login = NoLogin
    /\ RootIdle
    /\ BodyIdle

loopVars == <<totalChunks, UploadID, assigned, i, attempt, n, chunkData,
              fpos, totalSent>>

\* The variables of the calling command function.
callerVars == <<cmd, stages, cmdResult>>

\* The variables of the pull commands.
pullVars == <<destExists, destData, respBody>>

\* What a push command is given and prepares before the pipeline starts.
setupVars == <<fileKind, source, autoYes, answer, pigz, ddev, argv>>

\* The variables of the root command's version check.
rootVars == <<now, cfg, Version, versionChecks, root, run, notices>>

\* The chunk buffer and the goroutines writing request bodies from it.
bodyVars == <<buf, writers>>

\* Mutant of Return: the removal of the staged file is not deferred.
Return_NoRemove(r) ==
    /\ pc' = "returned"
    /\ result' = r
    /\ UNCHANGED <<tmpExists, srcFile>>

\* Mutant of tmpPath: the path removed is the one of the reader's file.
tmpPath_OfSource == "source"

\* UploadBaseFileChunked: tmpPath := tmpFile.Name(), the path os.CreateTemp
\* chose.
tmpPath == "staged"

\* os.Remove(path) on the files the command deals with.
Remove(path) ==
    /\ tmpExists' = IF path = "staged" THEN FALSE ELSE tmpExists
    /\ srcFile' = IF path = "source" THEN [srcFile EXCEPT !.exists = FALSE]
                                     ELSE srcFile

\* A return of UploadBaseFileChunked: the deferred os.Remove(tmpPath) runs.
Return(r) ==
    /\ pc' = "returned"
    /\ result' = r
    /\ Remove(tmpPath)

\* os.Exit(1): the process ends at once, deferred calls do not run.
Exit ==
    /\ pc' = "exited"
    /\ UNCHANGED <<result, tmpExists, srcFile>>

\* How a call that went through AfterResponse ends when it does not go on.
Leave(how, what) ==
    IF how = "exit" THEN Exit ELSE Return(Err(what))

\* Mutant of AfterSingle: the status of the response is not looked at.
AfterSingle_AnyStatus(st) ==
    IF st = TransportError THEN "error"
    ELSE IF st = 401 THEN "exit"
    ELSE "ok"

\* uploadSingleWithProgress after HTTPClient.Do: transport error returned,
\* os.Exit(1) on 401, error for a status other than 200, nil otherwise.
AfterSingle(st) ==
    IF st = TransportError THEN "error"
    ELSE IF st = 401 THEN "exit"
    ELSE IF st /= 200 THEN "http"
    ELSE "ok"

\* ---------------------------------------------------------------- actions
\* UploadBaseFileChunked: os.CreateTemp; on failure it returns before the
\* removal of the file is deferred (there is no file).
CreateTemp ==
    /\ cmd = "uploading"
    /\ pc = "start"
    /\ \E ok \in BOOLEAN :
         IF ok
         THEN /\ pc' = "copy"
              /\ tmpExists' = TRUE
              /\ tmpData' = <<>>
              /\ UNCHANGED <<result, srcFile>>
         ELSE /\ pc' = "returned"
              /\ result' = Err("failed to create temp file")
              /\ UNCHANGED <<tmpExists, srcFile, tmpData>>
    /\ UNCHANGED <<stream, written, loopVars, trace>>
    /\ log' = IF pc' = "copy" THEN Append(log, "create tmp") ELSE log
    /\ UNCHANGED <<callerVars, pullVars, setupVars, rootVars, login, bodyVars, stderr, pipes>>

\* A read of the reader handed to UploadBaseFileChunked returns a byte: the
\* pipe from the compressor holds one, or the reader is a file.
CanRead == source = "file" \/ pipes.gz > 0

TakeFromPipe ==
    IF source = "file" THEN pipes ELSE [pipes EXCEPT !.gz = @ - 1]

\* A read of the reader returns io.EOF: everything was read and the write
\* end of the pipe is closed, the compressor having exited.
AtEOF ==
    /\ stream = <<>>
    /\ source = "file" \/ (stages["compressor"].state = "exited" /\ pipes.gz = 0)

\* io.Copy(tmpFile, reader): one more byte of the stream reaches the file.
CopyStep ==
    /\ pc = "copy"
    /\ stream /= <<>>
    /\ CanRead
    /\ pipes' = TakeFromPipe
    /\ tmpData' = Append(tmpData, Head(stream))
    /\ stream' = Tail(stream)
    /\ UNCHANGED <<pc, tmpExists, srcFile, written, loopVars, trace, result>>
    /\ log' = log \o <<"read stream", "write tmp">>
    /\ UNCHANGED <<callerVars, pullVars, setupVars, rootVars, login, bodyVars, stderr>>

\* Mutant of CopyFail: the error of io.Copy is dropped and the upload goes
\* on with the bytes staged so far.
CopyFail_Ignored ==
    /\ pc = "copy"
    /\ written' = Len(tmpData)
    /\ pc' = IF UseSinglePath(Len(tmpData)) THEN "single" ELSE "chunked"
    /\ log' = log \o <<"copy error", "close tmp">>
    /\ UNCHANGED <<stream, tmpExists, srcFile, tmpData, loopVars, trace, result,
                   callerVars, pullVars, setupVars, rootVars, login, bodyVars, stderr, pipes>>

\* io.Copy fails (read error of the stream or write error of the file):
\* the file is closed and the error returned.
CopyFail ==
    /\ pc = "copy"
    /\ Return(Err("failed to buffer upload"))
    /\ UNCHANGED <<stream, tmpData, written, loopVars, trace>>
    /\ log' = log \o <<"copy error", "close tmp">>
    /\ UNCHANGED <<callerVars, pullVars, setupVars, rootVars, login, bodyVars, stderr, pipes>>

\* Mutant of CopyDone: the write handle is not closed before the staged
\* file is read.
CopyDone_NoClose ==
    /\ pc = "copy"
    /\ AtEOF
    /\ written' = Len(tmpData)
    /\ pc' = IF UseSinglePath(Len(tmpData)) THEN "single" ELSE "chunked"
    /\ UNCHANGED <<stream, tmpExists, srcFile, tmpData, loopVars, trace, result>>
    /\ log' = Append(log, "eof stream")
    /\ UNCHANGED <<callerVars, pullVars, setupVars, rootVars, login, bodyVars, stderr, pipes>>

\* io.Copy reaches end of stream; the file is closed and the path chosen.
CopyDone ==
    /\ pc = "copy"
    /\ AtEOF
    /\ written' = Len(tmpData)
    /\ pc' = IF UseSinglePath(Len(tmpData)) THEN "single" ELSE "chunked"
    /\ UNCHANGED <<stream, tmpExists, srcFile, tmpData, loopVars, trace, result>>
    /\ log' = log \o <<"eof stream", "close tmp">>
    /\ UNCHANGED <<callerVars, pullVars, setupVars, rootVars, login, bodyVars, stderr, pipes>>

\* uploadSingleWithProgress: os.Open, then the request is issued; its body
\* is what the goroutine copies from the file into the pipe.
SingleSend ==
    /\ pc = "single"
    /\ \E ok \in BOOLEAN :
         IF ok
         THEN /\ trace' = Append(trace,
                     Request("single", -1, "", tmpData, 0, written))
              /\ pc' = "single_wait"
              /\ UNCHANGED <<result, tmpExists, srcFile>>
         ELSE /\ Return(Err("open"))
              /\ UNCHANGED trace
    /\ UNCHANGED <<stream, tmpData, written, loopVars>>
    /\ log' = IF pc' = "single_wait" THEN Append(log, "open staged") ELSE log
    /\ UNCHANGED <<callerVars, pullVars, setupVars, rootVars, login, bodyVars, stderr, pipes>>

\* uploadSingleWithProgress, the goroutine: io.Copy reads a piece of the
\* file through the TeeReader, which hands it to progressWriter.Write.
SingleBody ==
    /\ pc = "single_wait"
    /\ fpos < Len(tmpData)
    /\ \E len \in 1..(Len(tmpData) - fpos) :
         LET p == SubSeq(tmpData, fpos + 1, fpos + len)
         IN  /\ fpos' = fpos + len
             /\ totalSent' = ProgressWrite(totalSent, p)
             /\ stderr' = Append(stderr,
                    Progress(ProgressWrite(totalSent, p), written))
    /\ log' = Append(log, "read staged")
    /\ UNCHANGED <<pc, stream, tmpExists, srcFile, tmpData, written, totalChunks,
                   UploadID, assigned, i, attempt, n, chunkData, trace,
                   result>>
    /\ UNCHANGED <<callerVars, pullVars, setupVars, rootVars, login, bodyVars, pipes>>

\* uploadSingleWithProgress, the goroutine: io.Copy reaches the end of the
\* file; the newline is printed, the multipart writer and the pipe closed.
SingleBodyDone ==
    /\ pc = "single_wait"
    /\ fpos = Len(tmpData)
    /\ pc' = "single_sent"
    /\ stderr' = Append(stderr, Newline)
    /\ log' = Append(log, "read staged")
    /\ UNCHANGED <<stream, tmpExists, srcFile, tmpData, written, loopVars, trace,
                   result>>
    /\ UNCHANGED <<callerVars, pullVars, setupVars, rootVars, login, bodyVars, pipes>>

\* uploadSingleWithProgress: HTTPClient.Do returns.  A transport error or
\* an error status may come while the body is still being sent; the server
\* acknowledges the upload only after it has read the whole body.
SingleResp ==
    /\ pc \in {"single_wait", "single_sent"}
    /\ \E st \in Outcomes :
         /\ st = 200 => pc = "single_sent"
         /\ trace' = Answered(st)
         /\ IF AfterSingle(st) = "ok"
            THEN Return(Ok)
            ELSE Leave(AfterSingle(st), "upload failed")
    /\ UNCHANGED <<stream, tmpData, written, loopVars>>
    /\ log' = IF pc' = "returned" THEN Append(log, "close staged") ELSE log
    /\ UNCHANGED <<callerVars, pullVars, setupVars, rootVars, login, bodyVars, stderr, pipes>>

\* uploadChunked: totalChunks is computed and the init request issued.
InitSend ==
    /\ pc = "chunked"
    /\ totalChunks' = TotalChunksOf(written)
    /\ trace' = Append(trace,
           Request("init", -1, "", <<>>, TotalChunksOf(written), written))
    /\ pc' = "init_wait"
    /\ UNCHANGED <<stream, tmpExists, srcFile, tmpData, written, UploadID, assigned,
                   i, attempt, n, chunkData, fpos, totalSent, result>>
    /\ UNCHANGED <<callerVars, log, pullVars, setupVars, rootVars, login, bodyVars, stderr, pipes>>

\* uploadChunked: the init call returns; on a 200 response the body is
\* decoded and the staged file opened for the chunk loop.
InitResp ==
    /\ pc = "init_wait"
    /\ \E st \in Outcomes, body \in ServerIDs \cup {NoUploadID}, ok \in BOOLEAN :
         /\ trace' = Answered(st)
         /\ IF AfterResponse(st) /= "ok"
            THEN /\ Leave(AfterResponse(st), "chunked init failed")
                 /\ UNCHANGED <<UploadID, assigned, i, fpos, totalSent>>
            ELSE /\ UploadID' = Decode(body)
                 /\ assigned' = body
                 /\ IF ok
                    THEN /\ pc' = "loop"
                         /\ i' = 0
                         /\ fpos' = 0
                         /\ totalSent' = 0
                         /\ UNCHANGED <<result, tmpExists, srcFile>>
                    ELSE /\ Return(Err("open"))
                         /\ UNCHANGED <<i, fpos, totalSent>>
    /\ UNCHANGED <<stream, tmpData, written, totalChunks, attempt, n,
                   chunkData>>
    /\ log' = IF pc' = "loop" THEN Append(log, "open staged") ELSE log
    /\ UNCHANGED <<callerVars, pullVars, setupVars, rootVars, login, bodyVars, stderr, pipes>>

\* uploadChunked: head of the chunk loop with i < totalChunks: io.ReadFull
\* fills buf, or fails with an error other than (unexpected) EOF.
ReadChunk ==
    /\ pc = "loop"
    /\ ChunkLoopContinues(i, totalChunks)
    /\ \E ok \in BOOLEAN :
         IF ok
         THEN /\ chunkData' = ReadFull(tmpData, fpos)
              /\ n' = Len(ReadFull(tmpData, fpos))
              /\ fpos' = fpos + Len(ReadFull(tmpData, fpos))
              /\ attempt' = 0
              /\ pc' = "send"
              /\ UNCHANGED <<result, tmpExists, srcFile>>
         ELSE /\ Return([err |-> "read chunk", index |-> i])
              /\ UNCHANGED <<chunkData, n, fpos, attempt>>
    /\ UNCHANGED <<stream, tmpData, written, totalChunks, UploadID, assigned,
                   i, totalSent, trace>>
    /\ log' = Append(log, IF pc' = "returned" THEN "close staged"
                                               ELSE "read staged")
    /\ UNCHANGED <<callerVars, pullVars, setupVars, rootVars, login, bodyVars, stderr, pipes>>

\* uploadChunked: one pass of the retry loop up to the call of
\* uploadOneChunk: the backoff sleep when attempt > 0, then the request.
SendChunk ==
    /\ pc = "send"
    /\ LET slept == IF attempt > 0
                    THEN Append(trace, Sleep(i, BackoffSecs(attempt)))
                    ELSE trace
       IN  trace' = Append(slept,
               Request("chunk", i, UploadID, chunkData, 0, 0))
    /\ pc' = "chunk_wait"
    /\ stderr' = IF attempt > 0 THEN Append(stderr, Message("retrying"))
                                ELSE stderr
    /\ UNCHANGED <<stream, tmpExists, srcFile, tmpData, written, loopVars, result>>
    /\ UNCHANGED <<callerVars, log, pullVars, setupVars, rootVars, login, bodyVars, pipes>>

\* Mutant of ChunkResp: the bytes of the chunk are counted as sent after
\* every attempt, not after the acknowledged one only.
ChunkResp_CountEveryAttempt ==
    /\ pc = "chunk_wait"
    /\ \E st \in Outcomes :
         /\ st /= 200 => Cardinality(FailedChunks(trace)) < MaxFaults
         /\ trace' = Answered(st)
         /\ totalSent' = totalSent + n
         /\ IF ChunkAccepted(st)
            THEN /\ i' = i + 1
                 /\ pc' = "loop"
                 /\ UNCHANGED <<attempt, result, tmpExists, srcFile>>
            ELSE /\ attempt' = attempt + 1
                 /\ IF RetryLoopContinues(attempt + 1)
                    THEN /\ pc' = "send"
                         /\ UNCHANGED <<result, tmpExists, srcFile>>
                    ELSE Return(ChunkErr(i))
                 /\ UNCHANGED i
    /\ UNCHANGED <<stream, tmpData, written, totalChunks, UploadID, assigned,
                   n, chunkData, fpos>>
    /\ log' = IF pc' = "returned" THEN Append(log, "close staged") ELSE log
    /\ stderr' = IF pc' = "loop"
                 THEN Append(stderr, Progress(totalSent', written))
                 ELSE stderr
    /\ UNCHANGED <<callerVars, pullVars, setupVars, rootVars, login, bodyVars, pipes>>

\* Mutant of ChunkResp: after a failed chunk request the session is
\* initialised again instead of the chunk being sent again.
ChunkResp_Reinit ==
    /\ pc = "chunk_wait"
    /\ \E st \in Outcomes :
         /\ st /= 200 => Cardinality(FailedChunks(trace)) < MaxFaults
         /\ trace' = Answered(st)
         /\ IF ChunkAccepted(st)
            THEN /\ totalSent' = totalSent + n
                 /\ i' = i + 1
                 /\ pc' = "loop"
                 /\ UNCHANGED <<attempt, result, tmpExists, srcFile>>
            ELSE /\ attempt' = attempt + 1
                 /\ IF RetryLoopContinues(attempt + 1)
                    THEN /\ pc' = "chunked"
                         /\ UNCHANGED <<result, tmpExists, srcFile>>
                    ELSE Return(ChunkErr(i))
                 /\ UNCHANGED <<totalSent, i>>
    /\ UNCHANGED <<stream, tmpData, written, totalChunks, UploadID, assigned,
                   n, chunkData, fpos>>
    /\ log' = IF pc' = "returned" THEN Append(log, "close staged") ELSE log
    /\ stderr' = IF pc' = "loop"
                 THEN Append(stderr, Progress(totalSent', written))
                 ELSE stderr
    /\ UNCHANGED <<callerVars, pullVars, setupVars, rootVars, login, bodyVars, pipes>>

\* Mutant of ChunkResp: a failed chunk is sent again without limit.
ChunkResp_NoGiveUp ==
    /\ pc = "chunk_wait"
    /\ \E st \in Outcomes :
         /\ st /= 200 => Cardinality(FailedChunks(trace)) < MaxFaults
         /\ trace' = Answered(st)
         /\ IF ChunkAccepted(st)
            THEN /\ totalSent' = totalSent + n
                 /\ i' = i + 1
                 /\ pc' = "loop"
                 /\ UNCHANGED <<attempt, result, tmpExists, srcFile>>
            ELSE /\ attempt' = attempt + 1
                 /\ pc' = "send"
                 /\ UNCHANGED <<result, tmpExists, srcFile, totalSent, i>>
    /\ UNCHANGED <<stream, tmpData, written, totalChunks, UploadID, assigned,
                   n, chunkData, fpos>>
    /\ log' = IF pc' = "returned" THEN Append(log, "close staged") ELSE log
    /\ stderr' = IF pc' = "loop"
                 THEN Append(stderr, Progress(totalSent', written))
                 ELSE stderr
    /\ UNCHANGED <<callerVars, pullVars, setupVars, rootVars, login, bodyVars, pipes>>

\* uploadOneChunk returns: success leaves the retry loop and counts the
\* chunk; failure retries while attempts remain, else the upload fails.
ChunkResp ==
    /\ pc = "chunk_wait"
    /\ \E st \in Outcomes :
         /\ st /= 200 => Cardinality(FailedChunks(trace)) < MaxFaults
         /\ trace' = Answered(st)
         /\ IF ChunkAccepted(st)
            THEN /\ totalSent' = totalSent + n
                 /\ i' = i + 1
                 /\ pc' = "loop"
                 /\ UNCHANGED <<attempt, result, tmpExists, srcFile>>
            ELSE /\ attempt' = attempt + 1
                 /\ IF RetryLoopContinues(attempt + 1)
                    THEN /\ pc' = "send"
                         /\ UNCHANGED <<result, tmpExists, srcFile>>
                    ELSE Return(ChunkErr(i))
                 /\ UNCHANGED <<totalSent, i>>
    /\ UNCHANGED <<stream, tmpData, written, totalChunks, UploadID, assigned,
                   n, chunkData, fpos>>
    /\ log' = IF pc' = "returned" THEN Append(log, "close staged") ELSE log
    /\ stderr' = IF pc' = "loop"
                 THEN Append(stderr, Progress(totalSent', written))
                 ELSE stderr
    /\ UNCHANGED <<callerVars, pullVars, setupVars, rootVars, login, bodyVars, pipes>>

\* Mutant of CompleteSend: the progress line is not ended by a newline.
CompleteSend_NoNewline ==
    /\ pc = "loop"
    /\ ~ChunkLoopContinues(i, totalChunks)
    /\ trace' = Append(trace, Request("complete", -1, UploadID, <<>>, 0, 0))
    /\ pc' = "complete_wait"
    /\ stderr' = Append(stderr, Message("finalizing"))
    /\ UNCHANGED <<stream, tmpExists, srcFile, tmpData, written, loopVars, result>>
    /\ UNCHANGED <<callerVars, log, pullVars, setupVars, rootVars, login, bodyVars, pipes>>

\* uploadChunked: the chunk loop is over; the newline ending the progress
\* line and the "Finalizing upload..." message are printed and the
\* complete request is issued.
CompleteSend ==
    /\ pc = "loop"
    /\ ~ChunkLoopContinues(i, totalChunks)
    /\ trace' = Append(trace, Request("complete", -1, UploadID, <<>>, 0, 0))
    /\ pc' = "complete_wait"
    /\ stderr' = stderr \o <<Newline, Message("finalizing")>>
    /\ UNCHANGED <<stream, tmpExists, srcFile, tmpData, written, loopVars, result>>
    /\ UNCHANGED <<callerVars, log, pullVars, setupVars, rootVars, login, bodyVars, pipes>>

\* uploadChunked: the complete call returns.
CompleteResp ==
    /\ pc = "complete_wait"
    /\ \E st \in Outcomes :
         /\ trace' = Answered(st)
         /\ IF AfterResponse(st) = "ok"
            THEN Return(Ok)
            ELSE Leave(AfterResponse(st), "chunked complete failed")
    /\ UNCHANGED <<stream, tmpData, written, loopVars>>
    /\ log' = IF pc' = "returned" THEN Append(log, "close staged") ELSE log
    /\ UNCHANGED <<callerVars, pullVars, setupVars, rootVars, login, bodyVars, stderr, pipes>>

\* The upload variables, left alone by the steps of the command function.
uploadVars == <<pc, stream, tmpExists, srcFile, tmpData, written, loopVars, trace,
                result>>

\* The command function returns err.
Done(err) ==
    /\ cmd' = "done"
    /\ cmdResult' = err

\* Size of the whole compressed stream: what was staged and what is left.
StreamSize == Len(tmpData) + Len(stream)

\* The command's process still exists (the pipes are open at its end).
Alive == cmd /= "done" /\ pc \notin {"exited", "killed"}

\* The producer process writes a byte to its stdout; it blocks while the
\* pipe to the compressor is full.
ProducerWrite ==
    /\ Alive
    /\ stages["producer"].state = "running"
    /\ pipes.emitted < StreamSize
    /\ pipes.raw < PipeCap
    /\ pipes' = [pipes EXCEPT !.emitted = @ + 1, !.raw = @ + 1]
    /\ UNCHANGED <<uploadVars, callerVars, log, pullVars, setupVars, rootVars, login, bodyVars,
                   stderr>>

\* The producer process has written everything and exits, which closes its
\* end of the pipe.
ProducerExit ==
    /\ Alive
    /\ stages["producer"].state = "running"
    /\ pipes.emitted = StreamSize
    /\ stages' = [stages EXCEPT !["producer"] = Exited]
    /\ UNCHANGED <<uploadVars, cmd, cmdResult, log, pullVars, setupVars,
                   rootVars, login, bodyVars, stderr, pipes>>

\* The compressor process reads a byte from its stdin and writes one to its
\* stdout; it blocks while the pipe to the command is full.
CompressorStep ==
    /\ Alive
    /\ stages["compressor"].state = "running"
    /\ pipes.raw > 0
    /\ pipes.gz < PipeCap
    /\ pipes' = [pipes EXCEPT !.raw = @ - 1, !.gz = @ + 1]
    /\ UNCHANGED <<uploadVars, callerVars, log, pullVars, setupVars, rootVars, login, bodyVars,
                   stderr>>

\* The compressor process reads end-of-file (the producer has exited and
\* its pipe is empty), has written everything, and exits.
CompressorExit ==
    /\ Alive
    /\ stages["compressor"].state = "running"
    /\ stages["producer"].state \in {"exited", "waited"}
    /\ pipes.raw = 0
    /\ stages' = [stages EXCEPT !["compressor"] = Exited]
    /\ UNCHANGED <<uploadVars, cmd, cmdResult, log, pullVars, setupVars,
                   rootVars, login, bodyVars, stderr, pipes>>

\* Mutant of StartCompressor: the compressor is waited on right after its
\* start, before its output is read.
StartCompressor_ThenWait ==
    /\ cmd = "producer_started"
    /\ \E ok \in BOOLEAN :
         IF ok
         THEN /\ stages' = [stages EXCEPT !["compressor"] = Running]
              /\ log' = Append(log, "start compressor")
              /\ cmd' = "wait_compressor"
              /\ UNCHANGED cmdResult
         ELSE /\ Done("failed to start compressor")
              /\ UNCHANGED <<stages, log>>
    /\ UNCHANGED <<uploadVars, pullVars, setupVars, rootVars, login, bodyVars, stderr, pipes>>

\* generateAndUploadDB / generateAndUploadFiles: drush.Start() (tarCmd.Start());
\* a start error is returned at once.
StartProducer ==
    /\ cmd = "begin"
    /\ \E ok \in BOOLEAN :
         IF ok
         THEN /\ stages' = [stages EXCEPT !["producer"] = Running]
              /\ log' = Append(log, "start producer")
              /\ cmd' = "producer_started"
              /\ UNCHANGED cmdResult
         ELSE /\ Done("failed to start producer")
              /\ UNCHANGED <<stages, log>>
    /\ UNCHANGED <<uploadVars, pullVars, setupVars, rootVars, login, bodyVars, stderr, pipes>>

\* generateAndUploadDB / generateAndUploadFiles: compressor.Start(); a
\* start error is returned at once.
StartCompressor ==
    /\ cmd = "producer_started"
    /\ \E ok \in BOOLEAN :
         IF ok
         THEN /\ stages' = [stages EXCEPT !["compressor"] = Running]
              /\ log' = Append(log, "start compressor")
              /\ cmd' = "uploading"
              /\ UNCHANGED cmdResult
         ELSE /\ Done("failed to start compressor")
              /\ UNCHANGED <<stages, log>>
    /\ UNCHANGED <<uploadVars, pullVars, setupVars, rootVars, login, bodyVars, stderr, pipes>>

\* generateAndUploadDB / generateAndUploadFiles / uploadExistingFile:
\* UploadBaseFileChunked has returned; its error is returned at once,
\* wrapped as "upload failed"; uploadExistingFile has nothing to wait on.
UploadReturned ==
    /\ cmd = "uploading"
    /\ pc = "returned"
    /\ IF UploadFailed(result)
       THEN Done("upload failed")
       ELSE IF source = "file"
       THEN Done("nil")
       ELSE cmd' = "wait_compressor" /\ UNCHANGED cmdResult
    /\ UNCHANGED <<uploadVars, stages, log, pullVars, setupVars, rootVars, login, bodyVars, stderr, pipes>>

\* generateAndUploadDB / generateAndUploadFiles: compressor.Wait() returns
\* once the process has exited; its error is returned at once.
WaitCompressor ==
    /\ cmd = "wait_compressor"
    /\ stages["compressor"].state = "exited"
    /\ \E code \in ExitCodes :
         /\ stages' = [stages EXCEPT !["compressor"] = Waited(code)]
         /\ IF StageFailed(code)
            THEN Done("compressor failed")
            ELSE cmd' = "wait_producer" /\ UNCHANGED cmdResult
    /\ log' = Append(log, "wait compressor")
    /\ UNCHANGED <<uploadVars, pullVars, setupVars, rootVars, login, bodyVars, stderr, pipes>>

\* generateAndUploadDB / generateAndUploadFiles: drush.Wait() (tarCmd.Wait())
\* returns once the process has exited; its error is returned, else the
\* command succeeds.
WaitProducer ==
    /\ cmd = "wait_producer"
    /\ stages["producer"].state = "exited"
    /\ \E code \in ExitCodes :
         /\ stages' = [stages EXCEPT !["producer"] = Waited(code)]
         /\ IF StageFailed(code)
            THEN Done("producer failed")
            ELSE Done("nil")
    /\ log' = Append(log, "wait producer")
    /\ UNCHANGED <<uploadVars, pullVars, setupVars, rootVars, login, bodyVars, stderr, pipes>>

\* The operator interrupts the command (SIGINT) while it stages, uploads
\* or downloads: no handler is installed, the process ends without running
\* deferred calls.
Interrupt ==
    /\ pc \notin {"start", "returned", "exited", "killed"}
    /\ pc' = "killed"
    /\ UNCHANGED <<stream, tmpExists, srcFile, tmpData, written, loopVars, trace,
                   result>>
    /\ UNCHANGED <<callerVars, log, pullVars, setupVars, rootVars, login, bodyVars, stderr, pipes>>

Next ==
    \/ ProducerWrite
    \/ ProducerExit
    \/ CompressorStep
    \/ CompressorExit
    \/ StartProducer
    \/ StartCompressor
    \/ UploadReturned
    \/ WaitCompressor
    \/ WaitProducer
    \/ CreateTemp
    \/ CopyStep
    \/ CopyFail
    \/ CopyDone
    \/ SingleSend
    \/ SingleBody
    \/ SingleBodyDone
    \/ SingleResp
    \/ InitSend
    \/ InitResp
    \/ ReadChunk
    \/ SendChunk
    \/ ChunkResp
    \/ CompleteSend
    \/ CompleteResp
    \/ Interrupt

Spec == Init /\ [][Next]_vars

\* The steps of the command's own process, the answers to its requests
\* included; the operator's interrupt is not one of them.
CommandStep ==
    \/ StartProducer \/ StartCompressor \/ UploadReturned
    \/ WaitCompressor \/ WaitProducer
    \/ CreateTemp \/ CopyStep \/ CopyFail \/ CopyDone
    \/ SingleSend \/ SingleBody \/ SingleBodyDone \/ SingleResp
    \/ InitSend \/ InitResp \/ ReadChunk \/ SendChunk \/ ChunkResp
    \/ CompleteSend \/ CompleteResp

\* The command keeps running while it can, every request is answered in
\* the end, and each external process runs whenever it is not blocked.
Fairness ==
    /\ WF_vars(CommandStep)
    /\ WF_vars(ProducerWrite \/ ProducerExit)
    /\ WF_vars(CompressorStep \/ CompressorExit)

LiveSpec == Spec /\ Fairness

\* ------------------------------------------------------------- type check
\* ------------------------------------------------------ the push commands
\* pushDBCmd / pushFilesCmd from their invocation to the start of the
\* pipeline.

PushMaxSize == 2

\* The state a push command is invoked in: either command, with or without
\* a file argument and --yes, DDEV running or not, pigz installed or not,
\* and whatever the operator will type.
InitPush ==
    /\ pc = "start"
    /\ stream \in {Payload(size) : size \in 0..PushMaxSize}
    /\ tmpExists = FALSE
    /\ tmpData = <<>>
    /\ written = 0
    /\ totalChunks = 0
    /\ UploadID = ""
    /\ assigned = ""
    /\ i = 0
    /\ attempt = 0
    /\ n = 0
    /\ chunkData = <<>>
    /\ fpos = 0
    /\ totalSent = 0
    /\ trace = <<>>
    /\ result = NoResult
    /\ cmd = "invoked"
    /\ stages = [s \in Stages |-> NotStarted]
    /\ cmdResult = "running"
    /\ log = <<>>
    /\ destExists = FALSE
    /\ destData = <<>>
    /\ respBody = <<>>
    /\ stderr = <<>>
    /\ pipes = EmptyPipes
    /\ fileKind \in {"db", "files"}
    /\ source \in {"pipeline", "file"}
    /\ autoYes \in BOOLEAN
    /\ answer \in IF autoYes THEN {NotAsked} ELSE Answers \cup {EndOfInput}
    /\ pigz \in BOOLEAN
    /\ ddev \in {"running", "stopped"}
    /\ argv = NoCommands
    /\ srcFile = IF source = "file" THEN File(stream) ELSE NoFile
    /\ login = NoLogin
    /\ RootIdle
    /\ BodyIdle

\* What the steps before the pipeline leave alone.
untouched == <<uploadVars, stages, pullVars, rootVars, login, bodyVars, pipes, fileKind,
               source, autoYes, answer, pigz>>

\* detectProjectSlug, then GetBaseFilesStatus through doRequest: an error
\* is returned, a 401 ends the process, else the status is printed.
CheckStatus ==
    /\ Alive
    /\ cmd = "invoked"
    /\ \E slug \in BOOLEAN, st \in Outcomes :
         IF ~slug
         THEN /\ Done("could not detect git remote")
              /\ UNCHANGED <<pc, log, stderr>>
         ELSE /\ log' = Append(log, "status request")
              /\ IF DoRequest(st) = "exit"
                 THEN /\ pc' = "exited"
                      /\ UNCHANGED <<cmd, cmdResult, stderr>>
                 ELSE IF DoRequest(st) = "error" \/ st /= 200
                 THEN /\ Done("failed to check base files status")
                      /\ UNCHANGED <<pc, stderr>>
                 ELSE /\ cmd' = "confirm"
                      /\ stderr' = Append(stderr, Message("status"))
                      /\ UNCHANGED <<pc, cmdResult>>
    /\ UNCHANGED <<stream, tmpExists, srcFile, tmpData, written, loopVars, trace,
                   result, stages, pullVars, rootVars, login, bodyVars, pipes, setupVars>>

\* pushDBCmd / pushFilesCmd: confirm; on a refusal "Aborted." is printed
\* and nil returned; else the file is uploaded or the payload generated.
Confirm ==
    /\ Alive
    /\ cmd = "confirm"
    /\ IF confirm(autoYes, answer)
       THEN /\ cmd' = IF source = "file" THEN "open_file" ELSE "ensure_ddev"
            /\ log' = Append(log, "confirmed")
            /\ stderr' = IF autoYes THEN stderr
                         ELSE Append(stderr, Message("prompt"))
            /\ UNCHANGED cmdResult
       ELSE /\ Done("nil")
            /\ log' = Append(log, "aborted")
            /\ stderr' = stderr \o <<Message("prompt"), Message("aborted")>>
    /\ UNCHANGED <<untouched, ddev, argv>>

\* uploadExistingFile: os.Open and Stat of the file given; the file is the
\* reader handed to UploadBaseFileChunked.
OpenFile ==
    /\ Alive
    /\ cmd = "open_file"
    /\ \E ok \in BOOLEAN :
         IF ok
         THEN cmd' = "uploading" /\ UNCHANGED cmdResult
         ELSE Done("cannot open file")
    /\ UNCHANGED <<untouched, log, stderr, ddev, argv>>

\* Mutant of EnsureDdev: the error of "ddev start" is not returned.
EnsureDdev_ErrorDropped ==
    /\ Alive
    /\ cmd = "ensure_ddev"
    /\ \E seen \in BOOLEAN, ok \in BOOLEAN :
         /\ seen => ddev = "running"
         /\ IF seen
            THEN /\ cmd' = "build"
                 /\ UNCHANGED <<cmdResult, ddev, log, stderr>>
            ELSE /\ stderr' = stderr \o <<Message("Starting ddev..."),
                                         Message("ddev start output")>>
                 /\ cmd' = "build"
                 /\ UNCHANGED cmdResult
                 /\ IF ok
                    THEN /\ ddev' = "running"
                         /\ log' = Append(log, "ddev started")
                    ELSE /\ log' = Append(log, "ddev start failed")
                         /\ UNCHANGED ddev
    /\ UNCHANGED <<untouched, argv>>

\* ensureDdevRunning: nil when "ddev describe -j" succeeds and reports
\* "running"; else "ddev start" is run with its stdout and stderr set to
\* os.Stderr, and its error returned.
EnsureDdev ==
    /\ Alive
    /\ cmd = "ensure_ddev"
    /\ \E seen \in BOOLEAN, ok \in BOOLEAN :
         /\ seen => ddev = "running"
         /\ IF seen
            THEN /\ cmd' = "build"
                 /\ UNCHANGED <<cmdResult, ddev, log, stderr>>
            ELSE /\ stderr' = stderr \o <<Message("Starting ddev..."),
                                         Message("ddev start output")>>
                 /\ IF ok
                    THEN /\ ddev' = "running"
                         /\ log' = Append(log, "ddev started")
                         /\ cmd' = "build"
                         /\ UNCHANGED cmdResult
                    ELSE /\ log' = Append(log, "ddev start failed")
                         /\ Done("failed to start ddev")
                         /\ UNCHANGED ddev
    /\ UNCHANGED <<untouched, argv>>

\* generateAndUploadDB / generateAndUploadFiles up to the first Start: the
\* files directory is looked up (push files), the producer and compressor
\* commands are built and connected by pipes; any error is returned.
BuildPipeline ==
    /\ Alive
    /\ cmd = "build"
    /\ \E ok \in BOOLEAN :
         IF ok
         THEN /\ argv' = Commands(fileKind, pigz)
              /\ cmd' = "begin"
              /\ UNCHANGED cmdResult
         ELSE /\ Done("failed to prepare the pipeline")
              /\ UNCHANGED argv
    /\ UNCHANGED <<untouched, log, stderr, ddev>>

NextPush ==
    \/ CheckStatus
    \/ Confirm
    \/ OpenFile
    \/ EnsureDdev
    \/ BuildPipeline
    \/ Next

SpecPush == InitPush /\ [][NextPush]_vars

\* --------------------------------------------------- the version check
\* rootCmd.PersistentPreRun with refreshVersionCache and printVersionWarning,
\* and selfUpdateCmd, over a sequence of invocations.

\* 24 * time.Hour, in ticks of the clock.
Day == 2

MaxTime == 4
MaxRuns == 3

\* Versions the server may announce.
Versions == {"v1", "v2"}

\* Everything but the root command's own state.
commandVars == <<uploadVars, callerVars, log, pullVars, setupVars, stderr,
                 pipes, bodyVars, login>>

\* A version request as sent: its invocation, the time, who sent it and
\* the LastVersionCheck of the config it was sent under.
Check(by) ==
    [run |-> run, at |-> now, by |-> by, last |-> cfg.LastVersionCheck,
     ok |-> "pending"]

\* The last version request gets its answer.
CheckAnswered(ok) ==
    [versionChecks EXCEPT ![Len(versionChecks)].ok = ok]

\* No invocation has been made; the config may or may not name a server.
InitVersion ==
    /\ pc = "start"
    /\ stream = <<>>
    /\ tmpExists = FALSE
    /\ tmpData = <<>>
    /\ written = 0
    /\ totalChunks = 0
    /\ UploadID = ""
    /\ assigned = ""
    /\ i = 0
    /\ attempt = 0
    /\ n = 0
    /\ chunkData = <<>>
    /\ fpos = 0
    /\ totalSent = 0
    /\ trace = <<>>
    /\ result = NoResult
    /\ cmd = "invoked"
    /\ stages = [s \in Stages |-> NotStarted]
    /\ cmdResult = "running"
    /\ log = <<>>
    /\ destExists = FALSE
    /\ destData = <<>>
    /\ respBody = <<>>
    /\ stderr = <<>>
    /\ pipes = EmptyPipes
    /\ fileKind = "db"
    /\ source = "none"
    /\ autoYes = FALSE
    /\ answer = NotAsked
    /\ pigz = FALSE
    /\ ddev = "stopped"
    /\ argv = NoCommands
    /\ srcFile = NoFile
    /\ login = NoLogin
    /\ now = 1
    /\ cfg \in {FreshConfig, [FreshConfig EXCEPT !.APIURL = ""]}
    /\ Version = "v1"
    /\ versionChecks = <<>>
    /\ root = "idle"
    /\ run = 0
    /\ notices = <<>>
    /\ BodyIdle

\* The operator runs a command: a new process, PersistentPreRun first.
Invoke ==
    /\ root = "idle"
    /\ run < MaxRuns
    /\ run' = run + 1
    /\ root' = "prerun"
    /\ UNCHANGED <<commandVars, now, cfg, Version, versionChecks, notices>>

\* PersistentPreRun: loadConfig; with an API URL refreshVersionCache, which
\* returns at once when LastVersionCheck is set and less than 24 hours old,
\* and else sends GET /api/cli/version and waits for the answer.
PreRun ==
    /\ root = "prerun"
    /\ IF cfg.APIURL = ""
       THEN root' = "command" /\ UNCHANGED versionChecks
       ELSE IF cfg.LastVersionCheck > 0 /\ now - cfg.LastVersionCheck < Day
       THEN root' = "notice" /\ UNCHANGED versionChecks
       ELSE /\ versionChecks' = Append(versionChecks, Check("auto"))
            /\ root' = "await_version"
    /\ UNCHANGED <<commandVars, now, cfg, Version, run, notices>>

\* Mutant of VersionResp: the time of the check is not recorded.
VersionResp_NotRecorded ==
    /\ root = "await_version"
    /\ \E good \in BOOLEAN, v \in Versions :
         IF good
         THEN /\ cfg' = [cfg EXCEPT !.LatestVersion = v]
              /\ versionChecks' = CheckAnswered("ok")
         ELSE /\ versionChecks' = CheckAnswered("failed")
              /\ UNCHANGED cfg
    /\ root' = "notice"
    /\ UNCHANGED <<commandVars, now, Version, run, notices>>

\* refreshVersionCache: the answer, or the 1.5 s timeout. An error, a
\* status other than 200 or an unusable body returns with nothing
\* recorded; else the version and the time are saved to the config.
VersionResp ==
    /\ root = "await_version"
    /\ \E good \in BOOLEAN, v \in Versions :
         IF good
         THEN /\ cfg' = [cfg EXCEPT !.LatestVersion = v,
                                    !.LastVersionCheck = now]
              /\ versionChecks' = CheckAnswered("ok")
         ELSE /\ versionChecks' = CheckAnswered("failed")
              /\ UNCHANGED cfg
    /\ root' = "notice"
    /\ UNCHANGED <<commandVars, now, Version, run, notices>>

\* printVersionWarning, called with the config refreshVersionCache has just
\* worked on: a notice when LatestVersion is set and is not Version.
PrintNotice ==
    /\ root = "notice"
    /\ notices' = IF cfg.LatestVersion /= "" /\ cfg.LatestVersion /= Version
                  THEN Append(notices, [run |-> run,
                                        latest |-> cfg.LatestVersion])
                  ELSE notices
    /\ root' = "command"
    /\ UNCHANGED <<commandVars, now, cfg, Version, versionChecks, run>>

\* Any command but self-update runs and the process ends.
RunCommand ==
    /\ root = "command"
    /\ root' = "idle"
    /\ UNCHANGED <<commandVars, now, cfg, Version, versionChecks, run,
                   notices>>

\* selfUpdateCmd: http.Get of /api/cli/version, whatever the config records.
SelfUpdate ==
    /\ root = "command"
    /\ versionChecks' = Append(versionChecks, Check("self-update"))
    /\ root' = "await_update"
    /\ UNCHANGED <<commandVars, now, cfg, Version, run, notices>>

\* selfUpdateCmd: an error or a status other than 200 is returned; the
\* running version is "Already up to date"; else the install script is run
\* and, when it succeeds, the config gets the new version and
\* LastVersionCheck = 0.
UpdateResp ==
    /\ root = "await_update"
    /\ \E good \in BOOLEAN, v \in Versions, installed \in BOOLEAN :
         IF ~good
         THEN /\ versionChecks' = CheckAnswered("failed")
              /\ UNCHANGED <<cfg, Version>>
         ELSE /\ versionChecks' = CheckAnswered("ok")
              /\ IF v /= Version /\ installed
                 THEN /\ Version' = v
                      /\ cfg' = [cfg EXCEPT !.APIURL = "set",
                                            !.LatestVersion = v,
                                            !.LastVersionCheck = 0]
                 ELSE UNCHANGED <<cfg, Version>>
    /\ root' = "idle"
    /\ UNCHANGED <<commandVars, now, run, notices>>

\* Time passes between invocations.
Tick ==
    /\ root = "idle"
    /\ now < MaxTime
    /\ now' = now + 1
    /\ UNCHANGED <<commandVars, cfg, Version, versionChecks, root, run,
                   notices>>

NextVersion ==
    \/ Invoke
    \/ PreRun
    \/ VersionResp
    \/ PrintNotice
    \/ RunCommand
    \/ SelfUpdate
    \/ UpdateResp
    \/ Tick

SpecVersion == InitVersion /\ [][NextVersion]_vars

\* -------------------------------------------- the bodies of chunk requests
\* uploadChunked's chunk loop with uploadOneChunk taken apart: the request
\* body is written by a goroutine reading buf through an io.Pipe, and the
\* transport may hand back a response before it has read the whole body.

MaxBody == 3

\* Answers to a chunk request that uploadOneChunk tells apart: 200 and
\* any other.
BodyOutcomes == {200, 500}

\* make([]byte, chunkSize)
ZeroBuf == [k \in 1..chunkSize |-> 0]

\* io.ReadFull(f, buf): the bytes read overwrite the head of buf.
Overwrite(old, data) ==
    [k \in 1..Len(old) |-> IF k <= Len(data) THEN data[k] ELSE old[k]]

\* A writer goroutine as started: the request it writes for, len(data),
\* and how far part.Write(data) has got.
Writer(req, len) == [req |-> req, len |-> len, pos |-> 0, state |-> "writing"]

\* uploadChunked after a successful init, buf allocated, the staged file
\* opened: the command uploads a file of MaxBody bytes at most.
InitBody ==
    /\ pc = "loop"
    /\ stream = <<>>
    /\ tmpExists = TRUE
    /\ tmpData \in {Payload(size) : size \in chunkSize..MaxBody}
    /\ written = Len(tmpData)
    /\ totalChunks = TotalChunksOf(written)
    /\ UploadID = "u1"
    /\ assigned = UploadID
    /\ i = 0
    /\ attempt = 0
    /\ n = 0
    /\ chunkData = <<>>
    /\ fpos = 0
    /\ totalSent = 0
    /\ trace = <<[Request("init", -1, "", <<>>, totalChunks, written)
                     EXCEPT !.status = 200]>>
    /\ result = NoResult
    /\ cmd = "uploading"
    /\ stages = [s \in Stages |-> NotStarted]
    /\ cmdResult = "running"
    /\ log = <<"open staged">>
    /\ destExists = FALSE
    /\ destData = <<>>
    /\ respBody = <<>>
    /\ stderr = <<>>
    /\ pipes = EmptyPipes
    /\ fileKind = "db"
    /\ source = "file"
    /\ autoYes = TRUE
    /\ answer = NotAsked
    /\ pigz = FALSE
    /\ ddev = "stopped"
    /\ argv = NoCommands
    /\ srcFile = File(tmpData)
    /\ login = NoLogin
    /\ RootIdle
    /\ buf = ZeroBuf
    /\ writers = <<>>

\* uploadChunked: head of the chunk loop, n, err := io.ReadFull(f, buf) and
\* chunkData := buf[:n], a slice of buf.
ReadIntoBuf ==
    /\ pc = "loop"
    /\ ChunkLoopContinues(i, totalChunks)
    /\ \E ok \in BOOLEAN :
         IF ok
         THEN /\ buf' = Overwrite(buf, ReadFull(tmpData, fpos))
              /\ chunkData' = ReadFull(tmpData, fpos)
              /\ n' = Len(ReadFull(tmpData, fpos))
              /\ fpos' = fpos + Len(ReadFull(tmpData, fpos))
              /\ attempt' = 0
              /\ pc' = "send"
              /\ UNCHANGED <<result, tmpExists, srcFile>>
         ELSE /\ Return([err |-> "read chunk", index |-> i])
              /\ UNCHANGED <<buf, chunkData, n, fpos, attempt>>
    /\ log' = Append(log, IF pc' = "returned" THEN "close staged"
                                               ELSE "read staged")
    /\ UNCHANGED <<stream, tmpData, written, totalChunks, UploadID, assigned,
                   i, totalSent, trace, writers>>
    /\ UNCHANGED <<callerVars, pullVars, setupVars, rootVars, login, stderr, pipes>>

\* uploadChunked / uploadOneChunk: the backoff sleep when attempt > 0, then
\* io.Pipe, the writer goroutine is started and the request handed to
\* HTTPClient.Do with the pipe as its body.
StartChunk ==
    /\ pc = "send"
    /\ LET slept == IF attempt > 0
                    THEN Append(trace, Sleep(i, BackoffSecs(attempt)))
                    ELSE trace
       IN  /\ trace' = Append(slept, Request("chunk", i, UploadID, <<>>, 0, 0))
           /\ writers' = Append(writers, Writer(Len(slept) + 1, n))
    /\ pc' = "chunk_wait"
    /\ stderr' = IF attempt > 0 THEN Append(stderr, Message("retrying"))
                                ELSE stderr
    /\ UNCHANGED <<stream, tmpExists, srcFile, tmpData, written, loopVars, result, buf>>
    /\ UNCHANGED <<callerVars, log, pullVars, setupVars, rootVars, login, pipes>>

\* uploadOneChunk's goroutine in part.Write(data): the transport reads the
\* next byte of the body from the pipe, that is from buf as it is now, and
\* sends it.
WriterStep ==
    /\ pc \notin {"exited", "killed"}
    /\ \E w \in DOMAIN writers :
         /\ writers[w].state = "writing"
         /\ writers[w].pos < writers[w].len
         /\ trace' = [trace EXCEPT ![writers[w].req].payload =
                          Append(@, buf[writers[w].pos + 1])]
         /\ writers' = [writers EXCEPT ![w].pos = @ + 1]
    /\ UNCHANGED <<pc, stream, tmpExists, srcFile, tmpData, written, loopVars, result,
                   buf>>
    /\ UNCHANGED <<callerVars, log, pullVars, setupVars, rootVars, login, stderr,
                   pipes>>

\* uploadOneChunk's goroutine: part.Write(data) has returned; writer.Close
\* and pw.Close end the body and the goroutine.
WriterDone ==
    /\ pc \notin {"exited", "killed"}
    /\ \E w \in DOMAIN writers :
         /\ writers[w].state = "writing"
         /\ writers[w].pos = writers[w].len
         /\ writers' = [writers EXCEPT ![w].state = "done"]
    /\ UNCHANGED <<uploadVars, callerVars, log, pullVars, setupVars, rootVars, login,
                   stderr, pipes, buf>>

\* The transport closes the body of a request that is over, at some time
\* after Do has returned: the goroutine's pending write fails and it ends.
BodyClosed ==
    /\ pc \notin {"exited", "killed"}
    /\ \E w \in DOMAIN writers :
         /\ writers[w].state = "writing"
         /\ trace[writers[w].req].status /= Pending
         /\ writers' = [writers EXCEPT ![w].state = "done"]
    /\ UNCHANGED <<uploadVars, callerVars, log, pullVars, setupVars, rootVars, login,
                   stderr, pipes, buf>>

\* uploadOneChunk: HTTPClient.Do returns, with the body sent in full or
\* not, and nothing waits for the goroutine; then as in uploadChunked:
\* success counts the chunk, failure retries while attempts remain.
ChunkAnswer ==
    /\ pc = "chunk_wait"
    /\ \E st \in BodyOutcomes :
         /\ st /= 200 => Cardinality(FailedChunks(trace)) < MaxFaults
         /\ trace' = Answered(st)
         /\ IF ChunkAccepted(st)
            THEN /\ totalSent' = totalSent + n
                 /\ i' = i + 1
                 /\ pc' = "loop"
                 /\ UNCHANGED <<attempt, result, tmpExists, srcFile>>
            ELSE /\ attempt' = attempt + 1
                 /\ IF RetryLoopContinues(attempt + 1)
                    THEN /\ pc' = "send"
                         /\ UNCHANGED <<result, tmpExists, srcFile>>
                    ELSE Return(ChunkErr(i))
                 /\ UNCHANGED <<totalSent, i>>
    /\ UNCHANGED <<stream, tmpData, written, totalChunks, UploadID, assigned,
                   n, chunkData, fpos>>
    /\ log' = IF pc' = "returned" THEN Append(log, "close staged") ELSE log
    /\ stderr' = IF pc' = "loop"
                 THEN Append(stderr, Progress(totalSent', written))
                 ELSE stderr
    /\ UNCHANGED <<callerVars, pullVars, setupVars, rootVars, login, pipes, bodyVars>>

NextBody ==
    \/ ReadIntoBuf
    \/ StartChunk
    \/ WriterStep
    \/ WriterDone
    \/ BodyClosed
    \/ ChunkAnswer
    \/ CompleteSend
    \/ CompleteResp
    \/ UploadReturned

SpecBody == InitBody /\ [][NextBody]_vars

\* ------------------------------------------------------------- the login
\* authLoginCmd with pollAuth: the request for a code, the poll loop with
\* its ticker and timeout, and the saving of the token.

\* time.NewTicker(2 * time.Second)
PollEverySecs == 2

\* time.After(5 * time.Minute)
TimeoutSecs == 300

\* What the poll endpoint can answer: no response at all, 404, a body that
\* is not JSON, or a status with or without a token.
PollAnswers ==
    {[code |-> c, status |-> st, token |-> t] :
        c \in {TransportError, 404, 200, 500},
        st \in {"pending", "approved", "denied", "not json"},
        t \in {"", "new"}}

\* pollAuth: the token and the error it returns.
pollAuth(a) ==
    IF a.code = TransportError THEN [token |-> "", err |-> "poll failed"]
    ELSE IF a.code = 404
    THEN [token |-> "", err |-> "auth request expired or not found"]
    ELSE IF a.status = "not json" THEN [token |-> "", err |-> "decode error"]
    ELSE IF a.status = "approved" THEN [token |-> a.token, err |-> "nil"]
    ELSE [token |-> "", err |-> "nil"]

\* The login command at a position, with its local cfg, the config as it
\* was loaded, the time since the ticker was started and the last poll.
Login(at, local, loaded, elapsed, last, err) ==
    [pc |-> at, local |-> local, loaded |-> loaded, elapsed |-> elapsed,
     last |-> last, err |-> err]

NoAnswer == [code |-> -1, status |-> "", token |-> ""]

\* The login command goes to a position.
LoginAt(at) == [login EXCEPT !.pc = at]

\* The login command returns.
LoginReturns(err) == [login EXCEPT !.pc = "done", !.err = err]

\* The login command is run with some config on disk, with or without an
\* API URL and a token.
InitLogin ==
    /\ pc = "start"
    /\ stream = <<>>
    /\ tmpExists = FALSE
    /\ srcFile = NoFile
    /\ tmpData = <<>>
    /\ written = 0
    /\ totalChunks = 0
    /\ UploadID = ""
    /\ assigned = ""
    /\ i = 0
    /\ attempt = 0
    /\ n = 0
    /\ chunkData = <<>>
    /\ fpos = 0
    /\ totalSent = 0
    /\ trace = <<>>
    /\ result = NoResult
    /\ cmd = "invoked"
    /\ stages = [s \in Stages |-> NotStarted]
    /\ cmdResult = "running"
    /\ log = <<>>
    /\ destExists = FALSE
    /\ destData = <<>>
    /\ respBody = <<>>
    /\ stderr = <<>>
    /\ pipes = EmptyPipes
    /\ fileKind = "db"
    /\ source = "none"
    /\ autoYes = FALSE
    /\ answer = NotAsked
    /\ pigz = FALSE
    /\ ddev = "stopped"
    /\ argv = NoCommands
    /\ now = 1
    /\ cfg \in {[APIURL |-> u, Token |-> t, LastVersionCheck |-> 0,
                 LatestVersion |-> ""] : u \in {"", "set"}, t \in {"", "old"}}
    /\ Version = "v1"
    /\ versionChecks = <<>>
    /\ root = "command"
    /\ run = 1
    /\ notices = <<>>
    /\ BodyIdle
    /\ login = Login("start", cfg, cfg, 0, NoAnswer, "")

\* Everything but the config file and the login command.
notLogin == <<uploadVars, callerVars, log, pullVars, setupVars, stderr,
              pipes, bodyVars, now, Version, versionChecks, root, run,
              notices>>

\* authLoginCmd: loadConfig, the default API URL; with a token the current
\* user is fetched and, when that works, the command ends "already logged
\* in"; else the login flow goes on.
LoginStart ==
    /\ login.pc = "start"
    /\ \E valid \in BOOLEAN :
         LET local == IF cfg.APIURL = ""
                      THEN [cfg EXCEPT !.APIURL = "default"] ELSE cfg
         IN  login' = IF cfg.Token /= "" /\ valid
                      THEN [login EXCEPT !.pc = "done", !.err = "nil",
                                         !.local = local]
                      ELSE [login EXCEPT !.pc = "request", !.local = local]
    /\ UNCHANGED <<notLogin, cfg>>

\* authLoginCmd: the random code and POST /api/auth/cli/request; an error
\* of either and a status other than 200 are returned; else the URL is
\* shown, the timeout and the ticker are started.
LoginRequest ==
    /\ login.pc = "request"
    /\ \E rand \in BOOLEAN, st \in Outcomes :
         login' = IF ~rand THEN LoginReturns("failed to generate code")
                  ELSE IF st = TransportError
                  THEN LoginReturns("failed to request auth")
                  ELSE IF st /= 200 THEN LoginReturns("auth request failed")
                  ELSE LoginAt("select")
    /\ UNCHANGED <<notLogin, cfg>>

\* authLoginCmd: select takes the ticker, PollEverySecs after the tick
\* before; pollAuth sends its GET.
LoginTick ==
    /\ login.pc = "select"
    /\ login.elapsed + PollEverySecs <= TimeoutSecs
    /\ login' = [login EXCEPT !.pc = "poll",
                              !.elapsed = @ + PollEverySecs]
    /\ UNCHANGED <<notLogin, cfg>>

\* authLoginCmd: select takes the timeout, which is ready with the tick
\* TimeoutSecs after the start or later.
LoginTimeout ==
    /\ login.pc = "select"
    /\ login.elapsed + PollEverySecs >= TimeoutSecs
    /\ login' = LoginReturns("authorization timed out after 5 minutes")
    /\ UNCHANGED <<notLogin, cfg>>

\* authLoginCmd: pollAuth returns; its error is returned, a token is put
\* into cfg to be saved, and no token means the loop goes on.
LoginPoll ==
    /\ login.pc = "poll"
    /\ \E a \in PollAnswers :
         login' = IF pollAuth(a).err /= "nil"
                  THEN [LoginReturns(pollAuth(a).err) EXCEPT !.last = a]
                  ELSE IF pollAuth(a).token /= ""
                  THEN [login EXCEPT !.pc = "save", !.last = a,
                                     !.local.Token = pollAuth(a).token]
                  ELSE [login EXCEPT !.pc = "select", !.last = a]
    /\ UNCHANGED <<notLogin, cfg>>

\* authLoginCmd: saveConfig(cfg), that is os.WriteFile, which truncates
\* the file and then writes it: it succeeds, or fails before the file is
\* touched, or fails after the truncation and leaves a file loadConfig
\* cannot parse.
LoginSave ==
    /\ login.pc = "save"
    /\ \E how \in {"ok", "not opened", "not written"} :
         /\ cfg' = IF how = "ok" THEN login.local
                   ELSE IF how = "not opened" THEN cfg
                   ELSE ZeroConfig
         /\ login' = IF how = "ok" THEN LoginReturns("nil")
                     ELSE LoginReturns("failed to save token")
    /\ UNCHANGED notLogin

NextLogin ==
    \/ LoginStart
    \/ LoginRequest
    \/ LoginTick
    \/ LoginTimeout
    \/ LoginPoll
    \/ LoginSave

SpecLogin == InitLogin /\ [][NextLogin]_vars

\* ------------------------------------------------------ the pull commands
\* pullDBCmd / pullFilesCmd with Client.DownloadStream.  The two commands
\* differ in the kind named in the URL and in the default file name only.

\* What a file found at the destination path before the command holds.
OldContent == <<0>>

\* The two pull commands.
PullCommands == {"pull_db", "pull_files"}

\* The state a pull command starts in: either command, and the destination
\* path may or may not name a file already.
InitPull ==
    /\ pc = "pull_start"
    /\ stream = <<>>
    /\ tmpExists = FALSE
    /\ tmpData = <<>>
    /\ written = 0
    /\ totalChunks = 0
    /\ UploadID = ""
    /\ assigned = ""
    /\ i = 0
    /\ attempt = 0
    /\ n = 0
    /\ chunkData = <<>>
    /\ fpos = 0
    /\ totalSent = 0
    /\ trace = <<>>
    /\ result = NoResult
    /\ cmd \in PullCommands
    /\ stages = [s \in Stages |-> NotStarted]
    /\ cmdResult = "running"
    /\ log = <<>>
    /\ destExists \in BOOLEAN
    /\ destData = IF destExists THEN OldContent ELSE <<>>
    /\ respBody = <<>>
    /\ stderr = <<>>
    /\ pipes = EmptyPipes
    /\ fileKind = IF cmd = "pull_db" THEN "db" ELSE "files"
    /\ source = "none"
    /\ autoYes = FALSE
    /\ answer = NotAsked
    /\ pigz = FALSE
    /\ ddev = "stopped"
    /\ argv = NoCommands
    /\ srcFile = NoFile
    /\ login = NoLogin
    /\ RootIdle
    /\ BodyIdle

\* What a pull command never touches.
pushVars == <<stream, tmpExists, srcFile, tmpData, written, loopVars, callerVars,
              setupVars, stderr, pipes, rootVars, login, bodyVars>>

\* The RunE function returns: nil or the error.
PullReturn(r) ==
    /\ pc' = "returned"
    /\ result' = r

\* DownloadStream returned an error: os.Remove(output), the error returned.
PullFail(what) ==
    /\ destExists' = FALSE
    /\ destData' = <<>>
    /\ PullReturn(Err(what))

\* os.Create(output): the file is created, or truncated when it exists;
\* on an error the command returns and the path is left as it was.
PullCreate ==
    /\ pc = "pull_start"
    /\ \E ok \in BOOLEAN :
         IF ok
         THEN /\ destExists' = TRUE
              /\ destData' = <<>>
              /\ pc' = "pull_send"
              /\ log' = IF destExists
                        THEN log \o <<"truncate dest", "create dest">>
                        ELSE Append(log, "create dest")
              /\ UNCHANGED result
         ELSE /\ PullReturn(Err("cannot create file"))
              /\ UNCHANGED <<destExists, destData, log>>
    /\ UNCHANGED <<pushVars, trace, respBody>>

\* DownloadStream: the GET request is issued through doRequest.
PullSend ==
    /\ pc = "pull_send"
    /\ trace' = Append(trace, Request("download", -1, "", <<>>, 0, 0))
    /\ pc' = "pull_wait"
    /\ UNCHANGED <<pushVars, result, log, pullVars>>

\* DownloadStream: doRequest returns.  A transport error and a status other
\* than 200 are returned as errors and the caller removes the file; a 401
\* ends the process inside doRequest; a 200 hands over the body.
PullResp ==
    /\ pc = "pull_wait"
    /\ \E st \in Outcomes, size \in 0..MaxSize :
         /\ st /= 200 => size = 0
         /\ trace' = [Answered(st) EXCEPT ![Len(trace)].payload = Payload(size)]
         /\ IF DoRequest(st) = "error"
            THEN /\ PullFail("request failed")
                 /\ UNCHANGED respBody
            ELSE IF DoRequest(st) = "exit"
            THEN /\ pc' = "exited"
                 /\ UNCHANGED <<result, pullVars>>
            ELSE IF st /= 200
            THEN /\ PullFail("HTTP status")
                 /\ UNCHANGED respBody
            ELSE /\ pc' = "pull_copy"
                 /\ respBody' = Payload(size)
                 /\ UNCHANGED <<result, destExists, destData>>
    /\ UNCHANGED <<pushVars, log>>

\* io.Copy(w, resp.Body): one more byte of the body reaches the file.
PullCopyStep ==
    /\ pc = "pull_copy"
    /\ respBody /= <<>>
    /\ destData' = Append(destData, Head(respBody))
    /\ respBody' = Tail(respBody)
    /\ UNCHANGED <<pc, result, destExists, pushVars, trace, log>>

\* io.Copy fails (the connection breaks or the write fails): the error is
\* returned and the caller removes the file.
PullCopyFail ==
    /\ pc = "pull_copy"
    /\ PullFail("copy failed")
    /\ UNCHANGED <<respBody, pushVars, trace, log>>

\* io.Copy reaches the end of the body: nil is returned, the file is kept.
PullCopyDone ==
    /\ pc = "pull_copy"
    /\ respBody = <<>>
    /\ PullReturn(Ok)
    /\ UNCHANGED <<pushVars, trace, log, pullVars>>

NextPull ==
    \/ PullCreate
    \/ PullSend
    \/ PullResp
    \/ PullCopyStep
    \/ PullCopyFail
    \/ PullCopyDone
    \/ Interrupt

SpecPull == InitPull /\ [][NextPull]_vars

TypeOK ==
    /\ pc \in {"start", "copy", "single", "single_wait", "single_sent", "chunked",
               "init_wait", "loop", "send", "chunk_wait", "complete_wait",
               "returned", "exited", "killed",
               "pull_start", "pull_send", "pull_wait", "pull_copy"}
    /\ cmd \in {"begin", "producer_started", "uploading", "wait_compressor",
                "wait_producer", "done", "invoked", "confirm", "open_file",
                "ensure_ddev", "build"} \cup PullCommands
    /\ \A st \in Stages :
         stages[st].state \in {"idle", "running", "exited", "waited"}
    /\ pipes.raw \in 0..PipeCap /\ pipes.gz \in 0..PipeCap
    /\ pipes.emitted \in 0..StreamSize
    /\ tmpExists \in BOOLEAN
    /\ written \in 0..MaxSize
    /\ i \in 0..totalChunks
    /\ attempt \in 0..MaxAttempts
    /\ n \in 0..chunkSize
    /\ root \in {"idle", "prerun", "await_version", "notice", "command",
                 "await_update"}
    /\ run \in 0..MaxRuns
    /\ now \in 1..MaxTime
    /\ Version \in Versions
    /\ cfg.APIURL \in {"", "set"}
    /\ cfg.LatestVersion \in Versions \cup {""}
    /\ cfg.LastVersionCheck \in 0..MaxTime
    /\ \A k \in DOMAIN versionChecks :
         /\ versionChecks[k].by \in {"auto", "self-update"}
         /\ versionChecks[k].ok \in {"pending", "ok", "failed"}
         /\ versionChecks[k].at \in 1..MaxTime

\* ------------------------------------------------- reading the trace back
\* Size of the staged file.
StagedSize == Len(tmpData)

\* ceil(a / b), stated by its defining inequalities.
CeilDiv(a, b) == CHOOSE c \in 0..a : c * b >= a /\ (c - 1) * b < a

\* Positions of the trace holding a request of the given kind.
Of(kind) == {k \in DOMAIN trace : trace[k].kind = kind}

\* Positions of the chunk requests for index idx issued before position k.
Earlier(idx, k) == {j \in Of("chunk") : j < k /\ trace[j].index = idx}

\* The chunk request issued last before position k (0: there is none).
RECURSIVE PrevChunk(_)
PrevChunk(k) ==
    IF k <= 1 THEN 0
    ELSE IF trace[k - 1].kind = "chunk" THEN k - 1
    ELSE PrevChunk(k - 1)

\* Requests in flight.
InFlight == {k \in DOMAIN trace :
                trace[k].kind /= "sleep" /\ trace[k].status = Pending}

Failed(k) == trace[k].status \notin {Pending, 200}

\* C1: a staged size below chunkSize takes the single-request path, a size
\* of chunkSize or more takes the chunked path, and the init request of
\* the chunked path announces ceil(size / chunkSize) chunks.
C1_PathBySize ==
    /\ pc \in {"single", "single_wait"} => StagedSize < chunkSize
    /\ pc \in {"chunked", "init_wait", "loop", "send", "chunk_wait",
               "complete_wait"} => StagedSize >= chunkSize
    /\ \A k \in DOMAIN trace :
         /\ trace[k].kind = "single" => StagedSize < chunkSize
         /\ trace[k].kind \in {"init", "chunk", "complete"}
               => StagedSize >= chunkSize
         /\ trace[k].kind = "init"
               => /\ trace[k].chunks = CeilDiv(StagedSize, chunkSize)
                  /\ trace[k].size = StagedSize

\* C1 witness: a payload of exactly chunkSize bytes went to the chunked
\* path, its init request announcing one chunk.
C1_Witness ==
    /\ StagedSize = chunkSize
    /\ \E k \in Of("init") : trace[k].chunks = 1 /\ trace[k].size = chunkSize

\* C2: chunk requests reach the transport in index order from 0, one at a
\* time: each follows an answered request, repeats the index of a failed
\* request or moves to the next index after an acknowledged one.
C2_InOrder ==
    /\ Cardinality(InFlight) <= 1
    /\ \A k \in InFlight : k = Len(trace)
    /\ \A k \in Of("chunk") :
         IF PrevChunk(k) = 0
         THEN trace[k].index = 0
         ELSE LET p == trace[PrevChunk(k)]
              IN  \/ trace[k].index = p.index + 1 /\ p.status = 200
                  \/ trace[k].index = p.index /\ Failed(PrevChunk(k))

\* C2 witness: index 0 failed once, was acknowledged, index 1 was sent.
C2_Witness ==
    \E a, b, c \in Of("chunk") :
        /\ a < b /\ b < c
        /\ trace[a].index = 0 /\ Failed(a)
        /\ trace[b].index = 0 /\ trace[b].status = 200
        /\ trace[c].index = 1

\* C3: a chunk or complete request is issued only after a successful init
\* and carries the upload_id the server assigned, never an empty one.
C3_SessionOnEveryRequest ==
    \A k \in Of("chunk") \cup Of("complete") :
        /\ \E j \in Of("init") : j < k /\ trace[j].status = 200
        /\ trace[k].id \in ServerIDs
        /\ trace[k].id = assigned

\* C4: at most 3 requests per chunk index; a request for an index already
\* requested follows a failed request for it; all requests for an index
\* carry the same payload bytes.
C4_BoundedIdenticalRetries ==
    \A k \in Of("chunk") :
        LET before == Earlier(trace[k].index, k)
        IN  /\ Cardinality(before) <= 2
            /\ \A j \in before :
                 /\ Failed(j)
                 /\ trace[j].payload = trace[k].payload

\* C4 witness: a third request for index 1, with a non-empty payload.
C4_Witness ==
    \E k \in Of("chunk") :
        /\ trace[k].index = 1
        /\ Cardinality(Earlier(1, k)) = 2
        /\ trace[k].payload /= <<>>

\* The sleep made right before the request at position k (0: none).
SleepBefore(k) ==
    IF k > 1 /\ trace[k - 1].kind = "sleep" THEN trace[k - 1].secs ELSE 0

C6_ExhaustedChunkAborts ==
    \A k \in Of("chunk") :
        (Failed(k) /\ Cardinality(Earlier(trace[k].index, k)) = 2)
            => /\ k = Len(trace)
               /\ pc = "returned"
               /\ result = [err |-> "chunk failed after 3 attempts",
                            index |-> trace[k].index]

\* C6 witness: chunk 0 was acknowledged and chunk 1 failed three times.
C6_Witness ==
    \E k \in Of("chunk") :
        /\ trace[k].index = 1
        /\ Failed(k)
        /\ Cardinality(Earlier(1, k)) = 2

\* C7: the complete request follows an acknowledged request for every
\* chunk index, and the chunked upload returns nil only when the complete
\* request was answered with 200; any other answer makes it fail.
C7_CompleteDecides ==
    /\ \A k \in Of("complete") :
         \A idx \in 0..(CeilDiv(StagedSize, chunkSize) - 1) :
             \E j \in Earlier(idx, k) : trace[j].status = 200
    /\ (pc = "returned" /\ StagedSize >= chunkSize /\ result.err = "nil")
           => /\ trace[Len(trace)].kind = "complete"
              /\ trace[Len(trace)].status = 200
    /\ \A k \in Of("complete") :
         Failed(k) => pc /= "returned" \/ result.err /= "nil"

\* C7 witness: every chunk was acknowledged, complete was answered 500
\* and the upload returned an error.
C7_Witness ==
    /\ pc = "returned"
    /\ result.err = "chunked complete failed"
    /\ \E k \in Of("complete") : trace[k].status = 500
    /\ StagedSize > chunkSize

\* The acknowledged chunk requests, in the order of the trace.
Acked == SelectSeq(trace, LAMBDA e : e.kind = "chunk" /\ e.status = 200)

RECURSIVE SumLen(_)
SumLen(q) == IF q = <<>> THEN 0 ELSE Len(Head(q).payload) + SumLen(Tail(q))

RECURSIVE Concat(_)
Concat(q) == IF q = <<>> THEN <<>> ELSE Head(q).payload \o Concat(Tail(q))

ChunkedSuccess ==
    pc = "returned" /\ result.err = "nil" /\ StagedSize >= chunkSize

\* C8: after a successful chunked upload the acknowledged payloads add up
\* to the staged size; all but the last have chunkSize bytes and the last
\* has size - chunkSize * (totalChunks - 1) bytes, between 1 and chunkSize.
C8_ChunkLengths ==
    ChunkedSuccess =>
        LET N == CeilDiv(StagedSize, chunkSize)
            last == StagedSize - chunkSize * (N - 1)
        IN  /\ Len(Acked) = N
            /\ SumLen(Acked) = StagedSize
            /\ \A k \in 1..(N - 1) : Len(Acked[k].payload) = chunkSize
            /\ Len(Acked[N].payload) = last
            /\ last > 0 /\ last <= chunkSize

\* C8 witness: 2 * chunkSize + 1 bytes went up as chunks of chunkSize,
\* chunkSize and 1 bytes (the scaled [50, 50, 20] example).
C8_Witness ==
    /\ ChunkedSuccess
    /\ StagedSize = 2 * chunkSize + 1
    /\ Len(Acked) = 3
    /\ Len(Acked[3].payload) = 1

\* C9: every request for chunk idx carries the staged bytes
\* [idx*chunkSize, min((idx+1)*chunkSize, size)), whatever the number of
\* attempts, and after a successful upload the acknowledged payloads
\* concatenated in index order are the staged file.
C9_ExactPartition ==
    /\ \A k \in Of("chunk") :
         trace[k].payload =
             SubSeq(tmpData, trace[k].index * chunkSize + 1,
                    Min((trace[k].index + 1) * chunkSize, StagedSize))
    /\ ChunkedSuccess =>
         /\ Concat(Acked) = tmpData
         /\ \A k \in 1..Len(Acked) : Acked[k].index = k - 1

\* C9 witness: a successful upload of three chunks, the last one short,
\* in which some chunk needed a retry.
C9_Witness ==
    /\ ChunkedSuccess
    /\ Len(Acked) = 3
    /\ Acked[3].payload = <<2 * chunkSize + 1>>
    /\ \E k \in Of("chunk") : Failed(k)

\* C10: in no terminal state of the command (returned, ended by a 401
\* response, ended by an operator interrupt) does the staged file exist.
C10_StagedFileAlwaysRemoved ==
    pc \in {"returned", "exited", "killed"} => ~tmpExists

\* ------------------------------------------------------- reading the log
\* Positions of the log holding the given event.
At(ev) == {k \in DOMAIN log : log[k] = ev}

\* C11: when copying the stream to the staged file fails, the upload
\* returns the staging error and no upload request of any kind is issued,
\* then or later.
C11_NoRequestAfterStagingError ==
    /\ At("copy error") /= {}
         => /\ trace = <<>>
            /\ pc = "returned"
            /\ result = Err("failed to buffer upload")
            /\ cmd = "done" => cmdResult = "upload failed"
    /\ trace /= <<>> => (stream = <<>> /\ At("eof stream") /= {})

\* C11 witness: the copy failed with a chunk's worth of bytes staged and
\* the command has returned.
C11_Witness ==
    /\ At("copy error") /= {}
    /\ StagedSize >= chunkSize
    /\ cmd = "done"

\* C12: a staged size below chunkSize leads to exactly one request, the
\* single upload, never to init, chunk or complete; when that request
\* fails the upload ends at once (error returned, or process ended on
\* 401) and the command fails, with no second request.
C12_SinglePathOneRequest ==
    (StagedSize < chunkSize /\ trace /= <<>>)
        => /\ Len(trace) = 1
           /\ trace[1].kind = "single"
           /\ Failed(1) =>
                /\ pc \in {"returned", "exited"}
                /\ pc = "returned" => result = Err("upload failed")
                /\ cmd \in {"uploading", "done"}
                /\ cmd = "done" => cmdResult = "upload failed"

\* C12 witness: the single upload was answered 500 and the command failed.
C12_Witness ==
    /\ Len(trace) = 1
    /\ trace[1].kind = "single"
    /\ trace[1].status = 500
    /\ cmdResult = "upload failed"

\* C13: when the producer's Wait reports a non-zero exit, the command
\* returns the producer's failure; at that point the upload has returned
\* nil and the compressor has exited 0.
C13_ProducerFailureReported ==
    (stages["producer"].state = "waited" /\ stages["producer"].code /= 0)
        => /\ cmd = "done"
           /\ cmdResult = "producer failed"

\* C13 witness: bytes were staged and uploaded with success, the
\* compressor exited 0 and the producer exited 1.
C13_Witness ==
    /\ stages["producer"] = Waited(1)
    /\ stages["compressor"] = Waited(0)
    /\ result = Ok
    /\ StagedSize > 0
    /\ \E k \in DOMAIN trace : trace[k].status = 200

\* C14: when the command has returned an upload or stage error, no stage
\* that was started is left un-waited.
C14_AllStartedStagesWaited ==
    (cmd = "done" /\ cmdResult \in {"upload failed", "compressor failed",
                                    "producer failed"})
        => \A st \in Stages : stages[st].state \in {"idle", "waited"}

\* Reads of the compressed stream, as the log names them.
StreamReads == {"read stream", "eof stream", "copy error"}

\* C15: the producer is started before the compressor and both before the
\* first read of the compressed stream; a stage is waited on only after
\* the stream was read to end-of-file, the compressor before the producer.
C15_StartReadWaitOrder ==
    /\ \A k \in At("start compressor") : \E a \in At("start producer") : a < k
    /\ \A k \in DOMAIN log :
         log[k] \in StreamReads
             => \E a \in At("start producer"), b \in At("start compressor") :
                    a < b /\ b < k
    /\ \A k \in At("wait compressor") \cup At("wait producer") :
         \E e \in At("eof stream") : e < k
    /\ \A k \in At("wait producer") : \E c \in At("wait compressor") : c < k

\* C15 witness: both stages were started, the stream read to its end and
\* both stages waited on.
C15_Witness ==
    /\ At("wait producer") /= {}
    /\ At("read stream") /= {}

\* C16: once the download request was answered with a status other than
\* 200 and the process has ended, no file is at the destination path.
C16_NoFileAfterNon200 ==
    (/\ pc \in {"returned", "exited"}
     /\ \E k \in Of("download") :
          trace[k].status \notin {Pending, TransportError, 200})
        => ~destExists

\* C17: a request answered 401 ends the process at once: it is the last
\* entry of the trace (no retry, no backoff sleep after it) and the upload
\* function has not returned an error for it.
C17_UnauthorizedAlwaysExits ==
    \A k \in DOMAIN trace :
        trace[k].status = 401 => (k = Len(trace) /\ pc = "exited")

\* Requests the server acknowledged as finalizing an upload.
Finalized ==
    {k \in Of("single") \cup Of("complete") : trace[k].status = 200}

\* C18: when the command has returned an error, the server has
\* acknowledged neither a complete call nor a single-request upload.
C18_FailedPushNotFinalized ==
    (cmd = "done" /\ cmdResult /= "nil") => Finalized = {}

\* C19: the trace of a chunked upload is init first and only once, then
\* chunk requests and sleeps, then at most one complete as the last entry;
\* no single-request upload is mixed in, and every chunk and complete
\* request of the trace carries the one upload id the init returned.
C19_LinearTrace ==
    (trace /= <<>> /\ trace[1].kind /= "single")
        => /\ Of("init") = {1}
           /\ Of("single") = {}
           /\ \A k \in Of("complete") : k = Len(trace)
           /\ \A k \in DOMAIN trace :
                k > 1 => trace[k].kind \in {"chunk", "sleep", "complete"}
           /\ \A k \in Of("chunk") \cup Of("complete") :
                /\ trace[1].status = 200
                /\ trace[k].id = UploadID
           /\ \A j, k \in Of("chunk") \cup Of("complete") :
                trace[j].id = trace[k].id

\* C19 witness: a chunk request failed and was sent again, a later chunk
\* followed, and the complete request was answered.
C19_Witness ==
    /\ Of("complete") /= {}
    /\ trace[Len(trace)].status = 200
    /\ \E k \in Of("chunk") : Failed(k)
    /\ \E k \in Of("chunk") : trace[k].index = 1

\* C20: the staged file is created once and opened for reading at most
\* once; every open and read of it comes after the close of the write
\* handle, no write comes after the open for reading, and a request is
\* issued only when the stream has been copied to end-of-file.
C20_WriteThenRead ==
    /\ Cardinality(At("create tmp")) <= 1
    /\ Cardinality(At("open staged")) <= 1
    /\ \A k \in At("open staged") \cup At("read staged") :
         /\ \E c \in At("close tmp") : c < k
         /\ \A w \in At("write tmp") : w < k
    /\ \A k \in At("read staged") : \E o \in At("open staged") : o < k
    /\ \A k \in At("write tmp") : \E c \in At("create tmp") : c < k
    /\ trace /= <<>> => (At("eof stream") /= {} /\ stream = <<>>)

\* C20 witness: bytes were written to the staged file, and it was then
\* read in chunks and sent.
C20_Witness ==
    /\ At("write tmp") /= {}
    /\ Cardinality(At("read staged")) >= 2
    /\ Of("chunk") /= {}

\* C27: an acknowledged chunk request is the k-th request for its index
\* (k <= 3) after k-1 failed ones, no request for that index follows it,
\* the next request is for the next index or is the complete request, and
\* the running total of sent bytes counts each acknowledged chunk once.
C27_RetryThenSuccess ==
    /\ \A p \in Of("chunk") :
         trace[p].status = 200 =>
           /\ Cardinality(Earlier(trace[p].index, p)) + 1 <= MaxAttempts
           /\ \A j \in Earlier(trace[p].index, p) : Failed(j)
           /\ \A j \in Of("chunk") : j > p => trace[j].index /= trace[p].index
           /\ p < Len(trace) =>
                \/ /\ trace[p + 1].kind = "chunk"
                   /\ trace[p + 1].index = trace[p].index + 1
                \/ trace[p + 1].kind = "complete"
    /\ StagedSize >= chunkSize => totalSent = SumLen(Acked)

\* C27 witness: chunk 0 failed twice and was acknowledged at the third
\* request, chunk 1 followed, and 2 bytes count as sent.
C27_Witness ==
    /\ \E p \in Of("chunk") :
         /\ trace[p].index = 0
         /\ trace[p].status = 200
         /\ Cardinality(Earlier(0, p)) = 2
         /\ p < Len(trace)
    /\ totalSent = chunkSize

\* C28: when UploadBaseFileChunked has returned, on whichever path, the
\* staged file does not exist, and it does not while the caller goes on.
C28_RemovedOnReturn ==
    /\ pc = "returned" => ~tmpExists
    /\ cmd \in {"wait_compressor", "wait_producer"}
         => (pc = "returned" /\ ~tmpExists)
    /\ (cmd = "done" /\ pc \notin {"exited", "killed"}) => ~tmpExists

\* C28 witness: the staged file was created, a chunk ran out of attempts,
\* the upload returned its error and the caller resumed.
C28_Witness ==
    /\ At("create tmp") /= {}
    /\ pc = "returned"
    /\ result.err = "chunk failed after 3 attempts"
    /\ cmd = "done"
    /\ ~tmpExists

\* C29: a destination file the pull command created and that is there when
\* the command has ended holds exactly the body of a 200 response.
C29_RemainingFileComplete ==
    (/\ pc \in {"returned", "exited"}
     /\ At("create dest") /= {}
     /\ destExists)
        => \E k \in Of("download") :
               /\ trace[k].status = 200
               /\ destData = trace[k].payload

\* ---------------------------------------------------- reading the output
\* Positions of os.Stderr holding an entry of the given kind.
Out(what) == {k \in DOMAIN stderr : stderr[k].kind = what}

\* The upload ran to its end and returned nil.
Completed == pc = "returned" /\ result = Ok

C21_SingleWitness ==
    /\ Completed
    /\ StagedSize = 1
    /\ Out("progress") /= {}

\* ------------------------------------------------- the pipeline's progress
\* The command has returned or its process has ended.
Terminated == cmd = "done" \/ pc \in {"exited", "killed"}

\* The command reads the compressed stream or is about to.
Draining == cmd = "uploading" /\ pc \in {"start", "copy"}

\* A stage is blocked writing to a full pipe.
Blocked(st) ==
    /\ stages[st].state = "running"
    /\ IF st = "producer"
       THEN pipes.raw = PipeCap /\ pipes.emitted < StreamSize
       ELSE pipes.gz = PipeCap /\ pipes.raw > 0

\* UploadBaseFileChunked is over: the command reads the stream no more.
StoppedReading == pc = "returned"

\* C30: while the command is uploading and until it stops reading, a
\* compressor blocked on a full pipe has the command draining it and a
\* blocked producer has a running compressor; every Wait the command
\* reaches returns; and the command terminates.
C30_NeverDeadlocks ==
    /\ []((cmd = "uploading" /\ ~Terminated /\ ~StoppedReading)
            => /\ Blocked("compressor") => Draining
               /\ Blocked("producer")
                    => stages["compressor"].state = "running")
    /\ (cmd = "wait_compressor")
           ~> (stages["compressor"].state = "waited")
    /\ (cmd = "wait_producer") ~> (stages["producer"].state = "waited")
    /\ <>Terminated

\* C30 witness: both pipes were full with the producer blocked, the stream
\* was drained all the same, and both Wait calls have returned.
C30_Witness ==
    /\ StreamSize > 2 * PipeCap
    /\ At("wait producer") /= {}
    /\ cmdResult = "nil"

\* Both stages blocked at once while the command drains the stream.
C30_BothBlocked ==
    /\ Blocked("producer")
    /\ Blocked("compressor")
    /\ Draining

\* ------------------------------------------------- claims on the push setup

\* The command has got past the confirmation, one way or the other.
Asked == \E k \in DOMAIN log : log[k] \in {"confirmed", "aborted"}

Logged(what) == \E k \in DOMAIN log : log[k] = what

\* Something of the push has begun: a stage, the staging file or a request.
PushBegun ==
    \/ \E st \in Stages : stages[st].state /= "idle"
    \/ tmpExists
    \/ Logged("create tmp")
    \/ trace /= <<>>

\* C22: in push db and push files the compressor is pigz exactly when pigz
\* is on the search path and gzip otherwise, both with the arguments
\* "-6 -c"; the producer command is the same whichever compressor runs.
C22_CompressorLevelSix ==
    argv.compressor /= <<>> =>
        /\ argv.compressor[1] = (IF pigz THEN "pigz" ELSE "gzip")
        /\ Tail(argv.compressor) = <<"-6", "-c">>
        /\ argv.producer =
             IF fileKind = "db" THEN <<"ddev", "drush", "sql-dump">>
             ELSE <<"tar", "cf", "-", "--exclude=./css", "--exclude=./js",
                    "--exclude=./php", "-C", "filesDir", ".">>

\* gzip at level 6 compresses a files archive that is then uploaded.
C22_Witness ==
    /\ ~pigz
    /\ fileKind = "files"
    /\ argv.compressor = <<"gzip", "-6", "-c">>
    /\ stages["compressor"].state = "waited"
    /\ cmd = "done"
    /\ cmdResult = "nil"

\* C23: in push db a producer is started only with DDEV running, either
\* seen running or started with its output on the error stream; when
\* "ddev start" fails the command ends with that error, no stage was
\* started and no upload request was made.
C23_DdevBeforeProducer ==
    /\ (fileKind = "db" /\ stages["producer"].state /= "idle")
           => /\ ddev = "running"
              /\ ~Logged("ddev start failed")
    /\ Logged("ddev started") => Out("ddev start output") /= {}
    /\ Logged("ddev start failed")
           => /\ cmd = "done" \/ ~Alive
              /\ cmd = "done" => cmdResult = "failed to start ddev"
              /\ \A st \in Stages : stages[st].state = "idle"
              /\ trace = <<>>
              /\ ~tmpExists

\* DDEV was stopped, was started by the command, and the dump went up.
C23_Witness ==
    /\ fileKind = "db"
    /\ Logged("ddev started")
    /\ stages["producer"].state = "waited"
    /\ trace /= <<>>
    /\ cmdResult = "nil"

\* DDEV could not be started and the command ended without a producer.
C23_FailedStart ==
    /\ Logged("ddev start failed")
    /\ cmd = "done"
    /\ stages["producer"].state = "idle"

\* C24 as stated: without --yes exactly the answers "n" and "no" refuse.
C24_AsStated ==
    LET no == answer \in {<<"n">>, <<"n", "o">>}
    IN  /\ PushBegun => Logged("confirmed") /\ (autoYes \/ ~no)
        /\ autoYes => ~Logged("aborted") /\ Out("prompt") = {}
        /\ (~autoYes /\ no /\ Asked)
               => cmd = "done" /\ cmdResult = "nil" /\ ~PushBegun
        /\ (~autoYes /\ ~no) => ~Logged("aborted")

\* C24 (amended): nothing of a push begins unless the operator confirmed;
\* with --yes no prompt is shown and the command goes on; without it an
\* answer that is "n" or "no" once lower-cased and trimmed ends the command
\* with nil and nothing begun, and every other answer, end of input
\* included, confirms.
C24_ConfirmGates ==
    LET a  == TrimSpace(ToLower(answer))
        no == answer /= EndOfInput /\ a \in {<<"n">>, <<"n", "o">>}
    IN  /\ PushBegun => Logged("confirmed") /\ (autoYes \/ ~no)
        /\ autoYes => ~Logged("aborted") /\ Out("prompt") = {}
        /\ (~autoYes /\ no /\ Asked)
               => /\ Logged("aborted")
                  /\ cmd = "done"
                  /\ cmdResult = "nil"
                  /\ ~PushBegun
        /\ (~autoYes /\ ~no) => ~Logged("aborted")

\* The operator typed "NO" and the command ended with nothing uploaded.
C24_Witness ==
    /\ ~autoYes
    /\ answer = <<"N", "O">>
    /\ Logged("aborted")
    /\ cmd = "done"
    /\ cmdResult = "nil"

\* The input ended at the prompt and the upload went through.
C24_EndOfInput ==
    /\ ~autoYes
    /\ answer = EndOfInput
    /\ Logged("confirmed")
    /\ trace /= <<>>
    /\ cmdResult = "nil"

\* ------------------------------------------------ claims on the version check

\* The automatic version requests, in the order sent.
Auto == {k \in DOMAIN versionChecks : versionChecks[k].by = "auto"}

\* C25: no command waits for the answer to a version request before it
\* proceeds, and a notice is never printed by an invocation whose own
\* version request has just succeeded: it shows what an earlier run cached.
C25_NoticeNeverBlocks ==
    /\ root /= "await_version"
    /\ \A k \in DOMAIN notices :
         ~\E j \in Auto :
              /\ versionChecks[j].run = notices[k].run
              /\ versionChecks[j].ok = "ok"

C26_AfterFailure ==
    /\ Len(versionChecks) = 2
    /\ Auto = {1, 2}
    /\ versionChecks[1].ok = "failed"
    /\ versionChecks[2].at = versionChecks[1].at

\* ------------------------------------------- claims on the chunked upload

\* The chunked path was entered: its init request has been issued.
OnChunkedPath == Of("init") /= {}

\* Positions of the trace holding a backoff sleep.
Sleeps == {k \in DOMAIN trace : trace[k].kind = "sleep"}

\* For totalChunks = N at most 1 init, 3 * N chunk and 1 complete request
\* and at most 2 * N sleeps.
WithinBudget ==
    /\ Cardinality(Of("init")) <= 1
    /\ Cardinality(Of("chunk")) <= 3 * totalChunks
    /\ Cardinality(Of("complete")) <= 1
    /\ Cardinality(Sleeps) <= 2 * totalChunks

\* The chunked upload is over, an interrupt from outside apart.
ChunkedOver == OnChunkedPath /\ pc \in {"returned", "exited"}

\* C31 as stated: the only ways a chunked upload ends are success and the
\* errors init failed, chunk i failed and complete failed.
C31_AsStated ==
    /\ WithinBudget
    /\ ChunkedOver
           => /\ pc = "returned"
              /\ result.err \in {"nil", "chunked init failed",
                                 "chunk failed after 3 attempts",
                                 "chunked complete failed"}

\* C31 (amended): a chunked upload stays within 1 init, 3 * N chunk and 1
\* complete request and 2 * N sleeps, it always ends, and it ends in
\* success, in one of the errors init failed, open failed, read of chunk i
\* failed, chunk i failed, complete failed, or with the process exiting on
\* a 401 answer to the init or the complete request.
C31_ChunkedTerminates ==
    /\ [](/\ WithinBudget
          /\ (ChunkedOver /\ pc = "returned")
                 => result.err \in {"nil", "chunked init failed", "open",
                                    "read chunk",
                                    "chunk failed after 3 attempts",
                                    "chunked complete failed"}
          /\ (ChunkedOver /\ pc = "exited")
                 => /\ trace[Len(trace)].kind \in {"init", "complete"}
                    /\ trace[Len(trace)].status = 401)
    /\ (pc = "chunked") ~> (pc \in {"returned", "exited", "killed"})

\* The one chunk of an upload failed three times with two sleeps between.
C31_Witness ==
    /\ pc = "returned"
    /\ totalChunks = 1
    /\ Cardinality(Of("chunk")) = 3
    /\ Cardinality(Sleeps) = 2
    /\ result = ChunkErr(0)

\* The staged file could not be read in the chunk loop.
C31_ReadError ==
    /\ ChunkedOver
    /\ result.err = "read chunk"

\* C32: when the command has returned a start error, every stage started
\* before it has been waited on.
C32_StartErrorLeavesNoStage ==
    (cmd = "done" /\ cmdResult \in {"failed to start producer",
                                    "failed to start compressor"})
        => \A st \in Stages : stages[st].state \in {"idle", "waited"}

\* ---------------------------------------- claims on the chunk request body

\* The bytes of the staged file that belong to the chunk of an index.
ChunkBytes(index) ==
    SubSeq(tmpData, index * chunkSize + 1,
           Min((index + 1) * chunkSize, Len(tmpData)))

IsPrefix(a, b) == Len(a) <= Len(b) /\ a = SubSeq(b, 1, Len(a))

\* C33: once uploadOneChunk has returned, the goroutine writing the body
\* of its request has finished, and what a chunk request transmits is
\* bytes of the chunk of its own index only.
C33_BufferNotShared ==
    /\ \A w \in DOMAIN writers :
         trace[writers[w].req].status /= Pending
             => writers[w].state = "done"
    /\ \A k \in Of("chunk") :
         IsPrefix(trace[k].payload, ChunkBytes(trace[k].index))

\* A request put bytes of the next chunk on the wire.
C33_ForeignBytes ==
    \E k \in Of("chunk") :
        ~IsPrefix(trace[k].payload, ChunkBytes(trace[k].index))

\* ------------------------------------------- claims on the pull commands

\* The download did not succeed and the command is over.
PullFailed ==
    \/ pc = "exited"
    \/ pc = "returned" /\ result /= Ok

\* C34: when a pull command fails, a file that was at the output path
\* before the command is still there with the content it had.
C34_FailureKeepsOldFile ==
    (PullFailed /\ At("truncate dest") /= {})
        => destExists /\ destData = OldContent

\* --------------------------------------- claims on pushing an existing file

\* C35: a file given on the command line is staged in full before any
\* upload request is made, the single-request path is taken exactly for a
\* size below chunkSize, no pipeline stage is started, and at every point,
\* whatever the outcome, the file is on disk with the content it had; the
\* bytes staged and the bytes still to read are that content.
C35_SourceFileUntouched ==
    source = "file" =>
        /\ srcFile.exists
        /\ srcFile.data = Payload(Len(srcFile.data))
        /\ pc \in {"start", "copy"} /\ cmd /= "done"
               => srcFile.data = tmpData \o stream
        /\ trace /= <<>> => tmpData = srcFile.data /\ stream = <<>>
        /\ Of("single") /= {} => Len(srcFile.data) < chunkSize
        /\ Of("init") /= {} => Len(srcFile.data) >= chunkSize
        /\ \A st \in Stages : stages[st].state = "idle"

\* A file of chunkSize bytes or more was pushed in chunks, the staged copy
\* is gone and the file is where it was.
C35_Witness ==
    /\ source = "file"
    /\ cmd = "done"
    /\ cmdResult = "nil"
    /\ Of("complete") /= {}
    /\ ~tmpExists
    /\ srcFile = File(Payload(chunkSize))

\* The push of a file failed and the file is where it was.
C35_FailedPush ==
    /\ source = "file"
    /\ cmd = "done"
    /\ cmdResult = "upload failed"
    /\ ~tmpExists
    /\ srcFile.exists

\* ------------------------------------------------------ claims on the login

\* The login command has returned an error.
LoginFailed == login.pc = "done" /\ login.err /= "nil"

\* The token and the API URL on disk are those the command loaded.
ConfigAsLoaded ==
    /\ cfg.Token = login.loaded.Token
    /\ cfg.APIURL = login.loaded.APIURL

\* The last poll was answered approved with a token.
Approved ==
    /\ login.last.status = "approved"
    /\ login.last.token /= ""
    /\ login.last.code \notin {TransportError, 404}

\* The stored token changes only on an approved poll with a token, polls
\* without one keep the loop going while time remains, a 404, a transport
\* or a decode error and the timeout end the login with an error.
LoginByApprovalOnly ==
    /\ cfg.Token /= login.loaded.Token => Approved
    /\ (login.pc = "done" /\ login.err = "nil" /\ login.last /= NoAnswer)
           => cfg.Token = login.last.token
    /\ login.pc = "save" => Approved
    /\ (login.pc = "done" /\ login.last /= NoAnswer /\ ~Approved)
           => LoginFailed
    /\ (LoginFailed /\ login.err /= "failed to save token")
           => ConfigAsLoaded

\* C36: the stored token changes only on a poll answered approved with a
\* non-empty token; a 404, a transport or decode error and the timeout end
\* the login with an error; and whenever the login ends with an error the
\* token and the API URL on disk are as they were.
C36_LoginLeavesConfig ==
    /\ LoginByApprovalOnly
    /\ LoginFailed => ConfigAsLoaded

====
